---- MODULE Spec2Model ----
(***************************************************************************)
(* A model of the dashboard metadata / embedding / search pipeline:        *)
(*   src/app.py                          generate_embeddings,              *)
(*                                       search_dashboards, the search tab *)
(*   src/extract_metadata_from_pdf_llm.py  extract_dashboard_metadata,     *)
(*                                       process_workbook                  *)
(*   src/extract_metadata_from_pdfs.py   extract_kpis_from_text,           *)
(*                                       process_all_pdfs                  *)
(* Texts are sequences of tokens (words or characters); the two remote     *)
(* collaborators (the embedding model, the text generator) are inputs.     *)
(***************************************************************************)
EXTENDS Integers, Sequences, FiniteSets, TLC

\* ------------------------------------------------------------------ bounds

\* Longest dashboard list handed to generate_embeddings.
MaxDash == 2

\* Number of generate_embeddings runs explored for one store key.
MaxRuns == 2

\* Largest top_k explored (the UI allows 1..20, src/app.py:146).
MaxTopK == 3

\* ---------------------------------------------------------- generic helpers

RECURSIVE SeqSum(_)
SeqSum(s) == IF s = <<>> THEN 0 ELSE Head(s) + SeqSum(Tail(s))

RECURSIVE Flatten(_)
\* The concatenation of a sequence of sequences.
Flatten(ss) == IF ss = <<>> THEN <<>> ELSE Head(ss) \o Flatten(Tail(ss))

\* All sequences over S of length 0..n.
SeqsUpTo(S, n) == UNION {[1..k -> S] : k \in 0..n}

\* ------------------------------------------------------------ src/app.py

\* Dashboard records (the entries of dashboards.json).  Texts are word
\* sequences.  DashC has no "kpis" key: generate_embeddings reads it with
\* d.get("kpis", []).
DashA ==
    [id |-> "wb_a", name |-> <<"sales">>, tags |-> <<"sales", "cost">>,
     description |-> <<"sales">>, url |-> "wb/a.pdf",
     kpis |-> <<[name |-> <<"rate">>, description |-> <<"rate">>]>>]

DashC ==
    [id |-> "wb_c", name |-> <<"rate">>, tags |-> <<"rate">>,
     description |-> <<"cost">>, url |-> "wb/c.pdf"]

Dashboards == {DashA, DashC}

\* The query texts typed into the search tab.
Queries == {<<"sales", "sales", "rate">>, <<"rate", "cost">>}

\* Line 37: the "name - description" text of every KPI of d.
kpi_texts(d) ==
    IF "kpis" \in DOMAIN d
    THEN [i \in 1..Len(d.kpis) |->
            d.kpis[i].name \o <<"-">> \o d.kpis[i].description]
    ELSE <<>>

\* Line 38: the summary text of one dashboard.
combined_text(d) ==
    d.name \o <<"-">> \o d.tags \o <<"-">> \o d.description \o <<"-">>
        \o Flatten(kpi_texts(d))

\* The words the embedding model counts, one per coordinate.
Vocabulary == <<"sales", "rate", "cost">>

\* The dimensions the embedding service can answer with.  A deployment is
\* meant to keep one; the second one is the drift of section 4.6.
EmbedDims == {2, 3}

\* get_embedding: the vector of `text` when the service answers with
\* dimension dim.  Coordinate i counts the occurrences of Vocabulary[i].
get_embedding(text, dim) ==
    [i \in 1..dim |->
        Cardinality({j \in 1..Len(text) : text[j] = Vocabulary[i]})]

\* The squared Euclidean distance of IndexFlatL2.
L2sq(u, v) == SeqSum([i \in 1..Len(u) |-> (u[i] - v[i]) * (u[i] - v[i])])

\* The distance IndexFlatL2.search reports beside the label -1 when the
\* index holds fewer than top_k vectors (the largest float32).
FltMax == 1000

\* Whether vector i is reported before vector j for query vector q.
Closer(vecs, q, i, j) ==
    \/ L2sq(vecs[i], q) < L2sq(vecs[j], q)
    \/ L2sq(vecs[i], q) = L2sq(vecs[j], q) /\ i < j

\* The position (1-based) of the r-th nearest vector.
NthNearest(vecs, q, r) ==
    CHOOSE i \in 1..Len(vecs) :
        Cardinality({j \in 1..Len(vecs) : Closer(vecs, q, j, i)}) = r - 1

\* index.search(query, top_k) of line 76: exactly top_k (distance, label)
\* pairs, nearest first, labels 0-based, padded with (FltMax, -1).
index_search(vecs, q, top_k) ==
    [r \in 1..top_k |->
        IF r <= Len(vecs)
        THEN [dist |-> L2sq(vecs[NthNearest(vecs, q, r)], q),
              idx |-> NthNearest(vecs, q, r) - 1]
        ELSE [dist |-> FltMax, idx |-> -1]]

\* index.add of line 49 accepts a vector only of the index's dimension
\* (the binding asserts d == self.d).
index_add_ok_nocheck(d, emb) == TRUE

index_add_ok(d, emb) == Len(emb) = d

\* Line 80: the bound check of the result loop.
in_bounds(idx, metadata) == idx < Len(metadata)

\* metadata[idx] of line 81 with Python's list indexing: a negative idx
\* counts from the end.  Defined when -len <= idx < len.
py_getitem(metadata, idx) ==
    IF idx >= 0 THEN metadata[idx + 1] ELSE metadata[Len(metadata) + idx + 1]

py_getitem_raises(metadata, idx) ==
    idx >= Len(metadata) \/ idx < 0 - Len(metadata)

RECURSIVE insert_by_distance(_, _)
\* x placed after every element whose distance is <= x.dist.
insert_by_distance(x, s) ==
    IF s = <<>> THEN <<x>>
    ELSE IF Head(s).dist <= x.dist
         THEN <<Head(s)>> \o insert_by_distance(x, Tail(s))
         ELSE <<x>> \o s

RECURSIVE insert_by_distance_desc(_, _)
insert_by_distance_desc(x, s) ==
    IF s = <<>> THEN <<x>>
    ELSE IF Head(s).dist >= x.dist
         THEN <<Head(s)>> \o insert_by_distance_desc(x, Tail(s))
         ELSE <<x>> \o s

RECURSIVE sort_desc(_)
sort_desc(results) ==
    IF results = <<>> THEN <<>>
    ELSE insert_by_distance_desc(results[Len(results)],
                                 sort_desc(SubSeq(results, 1, Len(results) - 1)))

RECURSIVE sort_asc(_)
sort_asc(results) ==
    IF results = <<>> THEN <<>>
    ELSE insert_by_distance(results[Len(results)],
                            sort_asc(SubSeq(results, 1, Len(results) - 1)))

\* A reversed comparison in the sort of line 83.
sort_by_distance_reversed(results) == sort_desc(results)

\* Line 83: results.sort(key=lambda x: x[1]), a stable ascending sort.
sort_by_distance(results) == sort_asc(results)

\* Lines 78-81: the pairs kept by the result loop, in the index's order.
collect_results(raw, metadata) ==
    LET kept == SelectSeq(raw, LAMBDA e : in_bounds(e.idx, metadata))
    IN  [i \in 1..Len(kept) |->
            [meta |-> py_getitem(metadata, kept[i].idx), dist |-> kept[i].dist]]

\* Whether the result loop stops with an IndexError.
collect_raises(raw, metadata) ==
    \E i \in 1..Len(raw) :
        in_bounds(raw[i].idx, metadata) /\ py_getitem_raises(metadata, raw[i].idx)

\* ---------------------------------------------------------------- state

VARIABLES
    indexFile,     \* embeddings/<workbook>/dashboards.index
    metaFile,      \* embeddings/<workbook>/metadata.json
    bpc,           \* position of the running generate_embeddings call
    bD,            \* its dashboards argument (kept after it returns True)
    bDim,          \* dim of line 42
    bVecs,         \* the vectors added to the in-memory index (line 49)
    bMeta,         \* the in-memory metadata list (line 50)
    buildOutcome,  \* how the last generate_embeddings call ended
    bDrift,        \* an embedding of this call differed in dimension from first_emb
    run,           \* number of generate_embeddings calls started
    lastOkRun,     \* the last call that returned True (0: none yet)
    lastSearch     \* what the last click on "Search" did

storeVars ==
    <<indexFile, metaFile, bpc, bD, bDim, bVecs, bMeta, buildOutcome, bDrift,
      run, lastOkRun, lastSearch>>

\* A file that does not exist.
Absent == [state |-> "absent", run |-> 0]

\* A file opened for writing by run r and not yet written out.
Partial(r) == [state |-> "partial", run |-> r]

IndexContent(r, d, vecs) ==
    [state |-> "complete", run |-> r, d |-> d, vecs |-> vecs]

MetaContent(r, entries) ==
    [state |-> "complete", run |-> r, entries |-> entries]

NoSearch == [kind |-> "none"]

VARIABLES
    wbPath,        \* which batch ran: "none", "llm", "heuristic"
    wbFiles,       \* the os.listdir result of the workbook folder
    wbBehaviours,  \* how each listed file behaves when processed
    wbOutcome      \* what the batch returned or raised

workbookVars == <<wbPath, wbFiles, wbBehaviours, wbOutcome>>

VARIABLES
    kText,         \* the text handed to extract_kpis_from_text
    kpc,           \* position of the call: "patterns", "lines", "done"
    kPat,          \* the pattern of KPI_PATTERNS the first loop is at
    kPos,          \* the position pat.finditer scans from
    kLines,        \* the lines the second loop has still to visit
    kKpis,         \* kpis
    kFound,        \* found_names
    kOut           \* the list the call returned

kpiVars == <<kText, kpc, kPat, kPos, kLines, kKpis, kFound, kOut>>

VARIABLES
    cBlocks,       \* the blocks handed to choose_title_and_description
    cpc,           \* "ready" before the call, "done" after it
    cTitle,        \* the title it returned
    cDescription   \* the description it returned

chooseVars == <<cBlocks, cpc, cTitle, cDescription>>

VARIABLES
    pBlocks,       \* what extract_text_blocks_from_pdf yields for the PDF
    pOcrText,      \* what ocr_pdf yields for the PDF when it is run
    ppc,           \* "ready" before process_pdf_file, "done" after it
    pOcrRan,       \* whether ocr_pdf was called
    pMeta          \* the record process_pdf_file returned

pdfVars == <<pBlocks, pOcrText, ppc, pOcrRan, pMeta>>

\* What an action of the store leaves alone, and so on.
notStore == <<workbookVars, kpiVars, chooseVars, pdfVars>>

notWorkbook == <<storeVars, kpiVars, chooseVars, pdfVars>>

notKpi == <<storeVars, workbookVars, chooseVars, pdfVars>>

notChoose == <<storeVars, workbookVars, kpiVars, pdfVars>>

notPdf == <<storeVars, workbookVars, kpiVars, chooseVars>>

vars == <<storeVars, workbookVars, kpiVars, chooseVars, pdfVars>>

\* ------------------------------------------------- generate_embeddings

\* Lines 35-45.  texts[0] of line 41 raises IndexError for an empty list.
BuildStart(D, dim) ==
    /\ bpc = "idle"
    /\ lastSearch = NoSearch
    /\ run < MaxRuns
    /\ run' = run + 1
    /\ bD' = D
    /\ bDrift' = FALSE
    /\ bVecs' = <<>>
    /\ bMeta' = <<>>
    /\ IF D = <<>>
       THEN /\ buildOutcome' = "IndexError"
            /\ bpc' = "idle"
            /\ bDim' = 0
       ELSE /\ buildOutcome' = "running"
            /\ bpc' = "embed"
            /\ bDim' = Len(get_embedding(combined_text(D[1]), dim))
    /\ UNCHANGED <<indexFile, metaFile, lastOkRun, lastSearch>>
    /\ UNCHANGED notStore

\* Lines 47-50, one iteration: embed the next text and add it to the index.
BuildEmbed(dim) ==
    /\ bpc = "embed"
    /\ Len(bVecs) < Len(bD)
    /\ LET d == bD[Len(bVecs) + 1]
           emb == get_embedding(combined_text(d), dim)
       IN  /\ bDrift' = (bDrift \/ Len(emb) # bDim)
           /\ IF index_add_ok(bDim, emb)
              THEN /\ bVecs' = Append(bVecs, emb)
                   /\ bMeta' = Append(bMeta, d)
                   /\ bpc' = IF Len(bVecs) + 1 = Len(bD) THEN "write_index" ELSE "embed"
                   /\ UNCHANGED <<buildOutcome, bDim, bD>>
              ELSE /\ buildOutcome' = "DimensionMismatchError"
                   /\ bpc' = "idle"
                   /\ bVecs' = <<>>
                   /\ bMeta' = <<>>
                   /\ bDim' = 0
                   /\ bD' = <<>>
    /\ UNCHANGED <<indexFile, metaFile, run, lastOkRun, lastSearch>>
    /\ UNCHANGED notStore

\* metadata.json opened for writing before the index is written.
BuildOpenIndex_meta_first ==
    /\ bpc = "write_index"
    /\ metaFile' = Partial(run)
    /\ bpc' = "writing_index"
    /\ UNCHANGED <<indexFile, bD, bDim, bVecs, bMeta, buildOutcome, bDrift, run,
                   lastOkRun, lastSearch>>
    /\ UNCHANGED notStore

\* Line 55, faiss.write_index: the file is created or truncated ...
BuildOpenIndex ==
    /\ bpc = "write_index"
    /\ indexFile' = Partial(run)
    /\ bpc' = "writing_index"
    /\ UNCHANGED <<metaFile, bD, bDim, bVecs, bMeta, buildOutcome, bDrift, run, lastOkRun, lastSearch>>
    /\ UNCHANGED notStore

\* ... and then holds the whole index.
BuildCloseIndex ==
    /\ bpc = "writing_index"
    /\ indexFile' = IndexContent(run, bDim, bVecs)
    /\ bpc' = "write_meta"
    /\ UNCHANGED <<metaFile, bD, bDim, bVecs, bMeta, buildOutcome, bDrift, run, lastOkRun, lastSearch>>
    /\ UNCHANGED notStore

\* Line 56, open(..., "w"): metadata.json is created or truncated ...
BuildOpenMeta ==
    /\ bpc = "write_meta"
    /\ metaFile' = Partial(run)
    /\ bpc' = "writing_meta"
    /\ UNCHANGED <<indexFile, bD, bDim, bVecs, bMeta, buildOutcome, bDrift, run, lastOkRun, lastSearch>>
    /\ UNCHANGED notStore

\* ... lines 57-59: json.dump writes the list, the file is closed, return True.
BuildCloseMeta ==
    /\ bpc = "writing_meta"
    /\ metaFile' = MetaContent(run, bMeta)
    /\ bpc' = "idle"
    /\ buildOutcome' = "ok"
    /\ bVecs' = <<>>
    /\ bMeta' = <<>>
    /\ bDim' = 0
    /\ lastOkRun' = run
    /\ UNCHANGED <<indexFile, bD, bDrift, run, lastSearch>>
    /\ UNCHANGED notStore

\* The process is stopped while generate_embeddings runs (a crash, a kill,
\* an embedding request that raises): its locals are gone, the files stay.
\* The locals are cleared the same way when the call returns or raises.
BuildInterrupt ==
    /\ bpc # "idle"
    /\ bpc' = "idle"
    /\ buildOutcome' = "interrupted"
    /\ bVecs' = <<>>
    /\ bMeta' = <<>>
    /\ bDim' = 0
    /\ bD' = <<>>
    /\ UNCHANGED <<indexFile, metaFile, bDrift, run, lastOkRun, lastSearch>>
    /\ UNCHANGED notStore

\* --------------------------------------------------- search_dashboards

\* Line 67: both files of the store exist.
store_exists == indexFile.state # "absent" /\ metaFile.state # "absent"

\* search_dashboards(query, top_k, workbook_name) on the files as they are,
\* when the embedding service answers the query with dimension dim.
\*   kind     "returned" or the exception that ended the call
\*   ret      the returned list
\*   raw      what index.search reported, metaLen the length of metadata
\*   stError  the st.error of line 68 was shown
\*   embedCalls  number of get_embedding calls made
search_dashboards(query, top_k, dim) ==
    LET base == [kind |-> "returned", ret |-> <<>>, raw |-> <<>>, metaLen |-> 0,
                 stError |-> FALSE, embedCalls |-> 0, top_k |-> top_k,
                 missing |-> ~store_exists]
    IN
    IF ~store_exists
    THEN [base EXCEPT !.stError = TRUE]
    ELSE IF indexFile.state = "partial"
    THEN [base EXCEPT !.kind = "IndexReadError"]
    ELSE IF metaFile.state = "partial"
    THEN [base EXCEPT !.kind = "JSONDecodeError"]
    ELSE
        LET metadata == metaFile.entries
            query_emb == get_embedding(query, dim)
            called == [base EXCEPT !.embedCalls = 1, !.metaLen = Len(metadata)]
        IN
        IF Len(query_emb) # indexFile.d
        THEN [called EXCEPT !.kind = "AssertionError"]
        ELSE
            LET raw == index_search(indexFile.vecs, query_emb, top_k)
            IN  IF collect_raises(raw, metadata)
                THEN [called EXCEPT !.kind = "IndexError", !.raw = raw]
                ELSE [called EXCEPT
                        !.raw = raw,
                        !.ret = sort_by_distance(collect_results(raw, metadata))]

\* Lines 147-163, a click on "Search": nothing for a blank query; else the
\* search, then the results if the list is non-empty and the warning
\* "No results found." if it is empty.
SearchTab(query, top_k, dim) ==
    /\ bpc = "idle"
    /\ lastSearch = NoSearch
    /\ IF query = <<>>
       THEN lastSearch' = NoSearch
       ELSE LET r == search_dashboards(query, top_k, dim)
            IN  lastSearch' =
                    [kind |-> r.kind, ret |-> r.ret, raw |-> r.raw,
                     metaLen |-> r.metaLen, stError |-> r.stError,
                     embedCalls |-> r.embedCalls, top_k |-> r.top_k,
                     missing |-> r.missing,
                     warning |-> (r.kind = "returned" /\ r.ret = <<>>)]
    /\ UNCHANGED <<indexFile, metaFile, bpc, bD, bDim, bVecs, bMeta, buildOutcome,
                   bDrift, run, lastOkRun>>
    /\ UNCHANGED notStore

\* The next interaction with the page reruns the script from the top: what
\* the last search rendered is no longer shown.
Rerun ==
    /\ bpc = "idle"
    /\ lastSearch # NoSearch
    /\ lastSearch' = NoSearch
    /\ UNCHANGED <<indexFile, metaFile, bpc, bD, bDim, bVecs, bMeta, buildOutcome,
                   bDrift, run, lastOkRun>>
    /\ UNCHANGED notStore

StoreNext ==
    \/ \E D \in SeqsUpTo(Dashboards, MaxDash), dim \in EmbedDims : BuildStart(D, dim)
    \/ \E dim \in EmbedDims : BuildEmbed(dim)
    \/ BuildOpenIndex
    \/ BuildCloseIndex
    \/ BuildOpenMeta
    \/ BuildCloseMeta
    \/ BuildInterrupt
    \/ \E q \in Queries \cup {<<>>}, k \in 1..MaxTopK, dim \in EmbedDims :
           SearchTab(q, k, dim)
    \/ Rerun


\* ------------------------------------------------------------ texts (str)

\* A text (a str) is the sequence of the code points of its characters
\* (ord of each, 0..1114111).

\* The largest and the smallest number of a set that is not empty.
MaxOf(S) == CHOOSE x \in S : \A y \in S : y <= x

MinOf(S) == CHOOSE x \in S : \A y \in S : x <= y

\* The lower-case mapping of str.lower() for a character by itself, as
\* rules <<first, last, step, delta>>: every step-th code point c of
\* first..last has the lower-case form c + delta.  (U+0130 is not among
\* them: its lower-case form has two characters.)
LowerRules ==
    { <<65,90,1,32>>, <<192,214,1,32>>, <<216,222,1,32>>, <<256,302,2,1>>,
      <<306,310,2,1>>, <<313,327,2,1>>, <<330,374,2,1>>, <<376,376,1,-121>>,
      <<377,381,2,1>>, <<385,385,1,210>>, <<386,388,2,1>>,
      <<390,390,1,206>>, <<391,391,1,1>>, <<393,394,1,205>>,
      <<395,395,1,1>>, <<398,398,1,79>>, <<399,399,1,202>>,
      <<400,400,1,203>>, <<401,401,1,1>>, <<403,403,1,205>>,
      <<404,404,1,207>>, <<406,406,1,211>>, <<407,407,1,209>>,
      <<408,408,1,1>>, <<412,412,1,211>>, <<413,413,1,213>>,
      <<415,415,1,214>>, <<416,420,2,1>>, <<422,422,1,218>>,
      <<423,423,1,1>>, <<425,425,1,218>>, <<428,428,1,1>>,
      <<430,430,1,218>>, <<431,431,1,1>>, <<433,434,1,217>>,
      <<435,437,2,1>>, <<439,439,1,219>>, <<440,440,1,1>>, <<444,444,1,1>>,
      <<452,452,1,2>>, <<453,453,1,1>>, <<455,455,1,2>>, <<456,456,1,1>>,
      <<458,458,1,2>>, <<459,475,2,1>>, <<478,494,2,1>>, <<497,497,1,2>>,
      <<498,500,2,1>>, <<502,502,1,-97>>, <<503,503,1,-56>>,
      <<504,542,2,1>>, <<544,544,1,-130>>, <<546,562,2,1>>,
      <<570,570,1,10795>>, <<571,571,1,1>>, <<573,573,1,-163>>,
      <<574,574,1,10792>>, <<577,577,1,1>>, <<579,579,1,-195>>,
      <<580,580,1,69>>, <<581,581,1,71>>, <<582,590,2,1>>, <<880,882,2,1>>,
      <<886,886,1,1>>, <<895,895,1,116>>, <<902,902,1,38>>,
      <<904,906,1,37>>, <<908,908,1,64>>, <<910,911,1,63>>,
      <<913,929,1,32>>, <<931,939,1,32>>, <<975,975,1,8>>, <<984,1006,2,1>>,
      <<1012,1012,1,-60>>, <<1015,1015,1,1>>, <<1017,1017,1,-7>>,
      <<1018,1018,1,1>>, <<1021,1023,1,-130>>, <<1024,1039,1,80>>,
      <<1040,1071,1,32>>, <<1120,1152,2,1>>, <<1162,1214,2,1>>,
      <<1216,1216,1,15>>, <<1217,1229,2,1>>, <<1232,1326,2,1>>,
      <<1329,1366,1,48>>, <<4256,4293,1,7264>>, <<4295,4295,1,7264>>,
      <<4301,4301,1,7264>>, <<5024,5103,1,38864>>, <<5104,5109,1,8>>,
      <<7312,7354,1,-3008>>, <<7357,7359,1,-3008>>, <<7680,7828,2,1>>,
      <<7838,7838,1,-7615>>, <<7840,7934,2,1>>, <<7944,7951,1,-8>>,
      <<7960,7965,1,-8>>, <<7976,7983,1,-8>>, <<7992,7999,1,-8>>,
      <<8008,8013,1,-8>>, <<8025,8031,2,-8>>, <<8040,8047,1,-8>>,
      <<8072,8079,1,-8>>, <<8088,8095,1,-8>>, <<8104,8111,1,-8>>,
      <<8120,8121,1,-8>>, <<8122,8123,1,-74>>, <<8124,8124,1,-9>>,
      <<8136,8139,1,-86>>, <<8140,8140,1,-9>>, <<8152,8153,1,-8>>,
      <<8154,8155,1,-100>>, <<8168,8169,1,-8>>, <<8170,8171,1,-112>>,
      <<8172,8172,1,-7>>, <<8184,8185,1,-128>>, <<8186,8187,1,-126>>,
      <<8188,8188,1,-9>>, <<8486,8486,1,-7517>>, <<8490,8490,1,-8383>>,
      <<8491,8491,1,-8262>>, <<8498,8498,1,28>>, <<8544,8559,1,16>>,
      <<8579,8579,1,1>>, <<9398,9423,1,26>>, <<11264,11311,1,48>>,
      <<11360,11360,1,1>>, <<11362,11362,1,-10743>>,
      <<11363,11363,1,-3814>>, <<11364,11364,1,-10727>>,
      <<11367,11371,2,1>>, <<11373,11373,1,-10780>>,
      <<11374,11374,1,-10749>>, <<11375,11375,1,-10783>>,
      <<11376,11376,1,-10782>>, <<11378,11378,1,1>>, <<11381,11381,1,1>>,
      <<11390,11391,1,-10815>>, <<11392,11490,2,1>>, <<11499,11501,2,1>>,
      <<11506,11506,1,1>>, <<42560,42604,2,1>>, <<42624,42650,2,1>>,
      <<42786,42798,2,1>>, <<42802,42862,2,1>>, <<42873,42875,2,1>>,
      <<42877,42877,1,-35332>>, <<42878,42886,2,1>>, <<42891,42891,1,1>>,
      <<42893,42893,1,-42280>>, <<42896,42898,2,1>>, <<42902,42920,2,1>>,
      <<42922,42922,1,-42308>>, <<42923,42923,1,-42319>>,
      <<42924,42924,1,-42315>>, <<42925,42925,1,-42305>>,
      <<42926,42926,1,-42308>>, <<42928,42928,1,-42258>>,
      <<42929,42929,1,-42282>>, <<42930,42930,1,-42261>>,
      <<42931,42931,1,928>>, <<42932,42946,2,1>>, <<42948,42948,1,-48>>,
      <<42949,42949,1,-42307>>, <<42950,42950,1,-35384>>,
      <<42951,42953,2,1>>, <<42960,42960,1,1>>, <<42966,42968,2,1>>,
      <<42997,42997,1,1>>, <<65313,65338,1,32>>, <<66560,66599,1,40>>,
      <<66736,66771,1,40>>, <<66928,66928,2,39>>, <<66929,66938,1,39>>,
      <<66940,66954,1,39>>, <<66956,66962,1,39>>, <<66964,66965,1,39>>,
      <<68736,68786,1,64>>, <<71840,71871,1,32>>, <<93760,93791,1,32>>,
      <<125184,125217,1,34>> }

\* The rules that hold the code point c: none, or one.
RulesOf(c) ==
    {r \in LowerRules : r[1] <= c /\ c <= r[2] /\ (c - r[1]) % r[3] = 0}

\* The characters str.lower() skips when it looks for the letter before
\* or after a capital sigma (case-ignorable: apostrophe, full stop, colon,
\* circumflex, combining marks, modifier letters and so on), from ranges
\* <<first, last>>.
CaseIgnorable ==
    UNION {r[1]..r[2] : r \in
    { <<39,39>>, <<46,46>>, <<58,58>>, <<94,94>>, <<96,96>>, <<168,168>>,
      <<173,173>>, <<175,175>>, <<180,180>>, <<183,184>>, <<688,879>>,
      <<884,885>>, <<890,890>>, <<900,901>>, <<903,903>>, <<1155,1161>>,
      <<1369,1369>>, <<1375,1375>>, <<1425,1469>>, <<1471,1471>>,
      <<1473,1474>>, <<1476,1477>>, <<1479,1479>>, <<1524,1524>>,
      <<1536,1541>>, <<1552,1562>>, <<1564,1564>>, <<1600,1600>>,
      <<1611,1631>>, <<1648,1648>>, <<1750,1757>>, <<1759,1768>>,
      <<1770,1773>>, <<1807,1807>>, <<1809,1809>>, <<1840,1866>>,
      <<1958,1968>>, <<2027,2037>>, <<2042,2042>>, <<2045,2045>>,
      <<2070,2093>>, <<2137,2139>>, <<2184,2184>>, <<2192,2193>>,
      <<2200,2207>>, <<2249,2306>>, <<2362,2362>>, <<2364,2364>>,
      <<2369,2376>>, <<2381,2381>>, <<2385,2391>>, <<2402,2403>>,
      <<2417,2417>>, <<2433,2433>>, <<2492,2492>>, <<2497,2500>>,
      <<2509,2509>>, <<2530,2531>>, <<2558,2558>>, <<2561,2562>>,
      <<2620,2620>>, <<2625,2626>>, <<2631,2632>>, <<2635,2637>>,
      <<2641,2641>>, <<2672,2673>>, <<2677,2677>>, <<2689,2690>>,
      <<2748,2748>>, <<2753,2757>>, <<2759,2760>>, <<2765,2765>>,
      <<2786,2787>>, <<2810,2815>>, <<2817,2817>>, <<2876,2876>>,
      <<2879,2879>>, <<2881,2884>>, <<2893,2893>>, <<2901,2902>>,
      <<2914,2915>>, <<2946,2946>>, <<3008,3008>>, <<3021,3021>>,
      <<3072,3072>>, <<3076,3076>>, <<3132,3132>>, <<3134,3136>>,
      <<3142,3144>>, <<3146,3149>>, <<3157,3158>>, <<3170,3171>>,
      <<3201,3201>>, <<3260,3260>>, <<3263,3263>>, <<3270,3270>>,
      <<3276,3277>>, <<3298,3299>>, <<3328,3329>>, <<3387,3388>>,
      <<3393,3396>>, <<3405,3405>>, <<3426,3427>>, <<3457,3457>>,
      <<3530,3530>>, <<3538,3540>>, <<3542,3542>>, <<3633,3633>>,
      <<3636,3642>>, <<3654,3662>>, <<3761,3761>>, <<3764,3772>>,
      <<3782,3782>>, <<3784,3789>>, <<3864,3865>>, <<3893,3893>>,
      <<3895,3895>>, <<3897,3897>>, <<3953,3966>>, <<3968,3972>>,
      <<3974,3975>>, <<3981,3991>>, <<3993,4028>>, <<4038,4038>>,
      <<4141,4144>>, <<4146,4151>>, <<4153,4154>>, <<4157,4158>>,
      <<4184,4185>>, <<4190,4192>>, <<4209,4212>>, <<4226,4226>>,
      <<4229,4230>>, <<4237,4237>>, <<4253,4253>>, <<4348,4348>>,
      <<4957,4959>>, <<5906,5908>>, <<5938,5939>>, <<5970,5971>>,
      <<6002,6003>>, <<6068,6069>>, <<6071,6077>>, <<6086,6086>>,
      <<6089,6099>>, <<6103,6103>>, <<6109,6109>>, <<6155,6159>>,
      <<6211,6211>>, <<6277,6278>>, <<6313,6313>>, <<6432,6434>>,
      <<6439,6440>>, <<6450,6450>>, <<6457,6459>>, <<6679,6680>>,
      <<6683,6683>>, <<6742,6742>>, <<6744,6750>>, <<6752,6752>>,
      <<6754,6754>>, <<6757,6764>>, <<6771,6780>>, <<6783,6783>>,
      <<6823,6823>>, <<6832,6862>>, <<6912,6915>>, <<6964,6964>>,
      <<6966,6970>>, <<6972,6972>>, <<6978,6978>>, <<7019,7027>>,
      <<7040,7041>>, <<7074,7077>>, <<7080,7081>>, <<7083,7085>>,
      <<7142,7142>>, <<7144,7145>>, <<7149,7149>>, <<7151,7153>>,
      <<7212,7219>>, <<7222,7223>>, <<7288,7293>>, <<7376,7378>>,
      <<7380,7392>>, <<7394,7400>>, <<7405,7405>>, <<7412,7412>>,
      <<7416,7417>>, <<7468,7530>>, <<7544,7544>>, <<7579,7679>>,
      <<8125,8125>>, <<8127,8129>>, <<8141,8143>>, <<8157,8159>>,
      <<8173,8175>>, <<8189,8190>>, <<8203,8207>>, <<8216,8217>>,
      <<8228,8228>>, <<8231,8231>>, <<8234,8238>>, <<8288,8292>>,
      <<8294,8303>>, <<8305,8305>>, <<8319,8319>>, <<8336,8348>>,
      <<8400,8432>>, <<11388,11389>>, <<11503,11505>>, <<11631,11631>>,
      <<11647,11647>>, <<11744,11775>>, <<11823,11823>>, <<12293,12293>>,
      <<12330,12333>>, <<12337,12341>>, <<12347,12347>>, <<12441,12446>>,
      <<12540,12542>>, <<40981,40981>>, <<42232,42237>>, <<42508,42508>>,
      <<42607,42610>>, <<42612,42621>>, <<42623,42623>>, <<42652,42655>>,
      <<42736,42737>>, <<42752,42785>>, <<42864,42864>>, <<42888,42890>>,
      <<42994,42996>>, <<43000,43001>>, <<43010,43010>>, <<43014,43014>>,
      <<43019,43019>>, <<43045,43046>>, <<43052,43052>>, <<43204,43205>>,
      <<43232,43249>>, <<43263,43263>>, <<43302,43309>>, <<43335,43345>>,
      <<43392,43394>>, <<43443,43443>>, <<43446,43449>>, <<43452,43453>>,
      <<43471,43471>>, <<43493,43494>>, <<43561,43566>>, <<43569,43570>>,
      <<43573,43574>>, <<43587,43587>>, <<43596,43596>>, <<43632,43632>>,
      <<43644,43644>>, <<43696,43696>>, <<43698,43700>>, <<43703,43704>>,
      <<43710,43711>>, <<43713,43713>>, <<43741,43741>>, <<43756,43757>>,
      <<43763,43764>>, <<43766,43766>>, <<43867,43871>>, <<43881,43883>>,
      <<44005,44005>>, <<44008,44008>>, <<44013,44013>>, <<64286,64286>>,
      <<64434,64450>>, <<65024,65039>>, <<65043,65043>>, <<65056,65071>>,
      <<65106,65106>>, <<65109,65109>>, <<65279,65279>>, <<65287,65287>>,
      <<65294,65294>>, <<65306,65306>>, <<65342,65342>>, <<65344,65344>>,
      <<65392,65392>>, <<65438,65439>>, <<65507,65507>>, <<65529,65531>>,
      <<66045,66045>>, <<66272,66272>>, <<66422,66426>>, <<67456,67461>>,
      <<67463,67504>>, <<67506,67514>>, <<68097,68099>>, <<68101,68102>>,
      <<68108,68111>>, <<68152,68154>>, <<68159,68159>>, <<68325,68326>>,
      <<68900,68903>>, <<69291,69292>>, <<69446,69456>>, <<69506,69509>>,
      <<69633,69633>>, <<69688,69702>>, <<69744,69744>>, <<69747,69748>>,
      <<69759,69761>>, <<69811,69814>>, <<69817,69818>>, <<69821,69821>>,
      <<69826,69826>>, <<69837,69837>>, <<69888,69890>>, <<69927,69931>>,
      <<69933,69940>>, <<70003,70003>>, <<70016,70017>>, <<70070,70078>>,
      <<70089,70092>>, <<70095,70095>>, <<70191,70193>>, <<70196,70196>>,
      <<70198,70199>>, <<70206,70206>>, <<70367,70367>>, <<70371,70378>>,
      <<70400,70401>>, <<70459,70460>>, <<70464,70464>>, <<70502,70508>>,
      <<70512,70516>>, <<70712,70719>>, <<70722,70724>>, <<70726,70726>>,
      <<70750,70750>>, <<70835,70840>>, <<70842,70842>>, <<70847,70848>>,
      <<70850,70851>>, <<71090,71093>>, <<71100,71101>>, <<71103,71104>>,
      <<71132,71133>>, <<71219,71226>>, <<71229,71229>>, <<71231,71232>>,
      <<71339,71339>>, <<71341,71341>>, <<71344,71349>>, <<71351,71351>>,
      <<71453,71455>>, <<71458,71461>>, <<71463,71467>>, <<71727,71735>>,
      <<71737,71738>>, <<71995,71996>>, <<71998,71998>>, <<72003,72003>>,
      <<72148,72151>>, <<72154,72155>>, <<72160,72160>>, <<72193,72202>>,
      <<72243,72248>>, <<72251,72254>>, <<72263,72263>>, <<72273,72278>>,
      <<72281,72283>>, <<72330,72342>>, <<72344,72345>>, <<72752,72758>>,
      <<72760,72765>>, <<72767,72767>>, <<72850,72871>>, <<72874,72880>>,
      <<72882,72883>>, <<72885,72886>>, <<73009,73014>>, <<73018,73018>>,
      <<73020,73021>>, <<73023,73029>>, <<73031,73031>>, <<73104,73105>>,
      <<73109,73109>>, <<73111,73111>>, <<73459,73460>>, <<78896,78904>>,
      <<92912,92916>>, <<92976,92982>>, <<92992,92995>>, <<94031,94031>>,
      <<94095,94111>>, <<94176,94177>>, <<94179,94180>>, <<110576,110579>>,
      <<110581,110587>>, <<110589,110590>>, <<113821,113822>>,
      <<113824,113827>>, <<118528,118573>>, <<118576,118598>>,
      <<119143,119145>>, <<119155,119170>>, <<119173,119179>>,
      <<119210,119213>>, <<119362,119364>>, <<121344,121398>>,
      <<121403,121452>>, <<121461,121461>>, <<121476,121476>>,
      <<121499,121503>>, <<121505,121519>>, <<122880,122886>>,
      <<122888,122904>>, <<122907,122913>>, <<122915,122916>>,
      <<122918,122922>>, <<123184,123197>>, <<123566,123566>>,
      <<123628,123631>>, <<125136,125142>>, <<125252,125259>>,
      <<127995,127999>>, <<917505,917505>>, <<917536,917631>>,
      <<917760,917999>> }}

\* The cased characters that are not case-ignorable (letters that have an
\* upper-case or a lower-case form), from ranges <<first, last>>.
Cased ==
    UNION {r[1]..r[2] : r \in
    { <<65,90>>, <<97,122>>, <<170,170>>, <<181,181>>, <<186,186>>,
      <<192,214>>, <<216,246>>, <<248,442>>, <<444,447>>, <<452,659>>,
      <<661,687>>, <<880,883>>, <<886,887>>, <<891,893>>, <<895,895>>,
      <<902,902>>, <<904,906>>, <<908,908>>, <<910,929>>, <<931,1013>>,
      <<1015,1153>>, <<1162,1327>>, <<1329,1366>>, <<1376,1416>>,
      <<4256,4293>>, <<4295,4295>>, <<4301,4301>>, <<4304,4346>>,
      <<4349,4351>>, <<5024,5109>>, <<5112,5117>>, <<7296,7304>>,
      <<7312,7354>>, <<7357,7359>>, <<7424,7467>>, <<7531,7543>>,
      <<7545,7578>>, <<7680,7957>>, <<7960,7965>>, <<7968,8005>>,
      <<8008,8013>>, <<8016,8023>>, <<8025,8025>>, <<8027,8027>>,
      <<8029,8029>>, <<8031,8061>>, <<8064,8116>>, <<8118,8124>>,
      <<8126,8126>>, <<8130,8132>>, <<8134,8140>>, <<8144,8147>>,
      <<8150,8155>>, <<8160,8172>>, <<8178,8180>>, <<8182,8188>>,
      <<8450,8450>>, <<8455,8455>>, <<8458,8467>>, <<8469,8469>>,
      <<8473,8477>>, <<8484,8484>>, <<8486,8486>>, <<8488,8488>>,
      <<8490,8493>>, <<8495,8500>>, <<8505,8505>>, <<8508,8511>>,
      <<8517,8521>>, <<8526,8526>>, <<8544,8575>>, <<8579,8580>>,
      <<9398,9449>>, <<11264,11387>>, <<11390,11492>>, <<11499,11502>>,
      <<11506,11507>>, <<11520,11557>>, <<11559,11559>>, <<11565,11565>>,
      <<42560,42605>>, <<42624,42651>>, <<42786,42863>>, <<42865,42887>>,
      <<42891,42894>>, <<42896,42954>>, <<42960,42961>>, <<42963,42963>>,
      <<42965,42969>>, <<42997,42998>>, <<43002,43002>>, <<43824,43866>>,
      <<43872,43880>>, <<43888,43967>>, <<64256,64262>>, <<64275,64279>>,
      <<65313,65338>>, <<65345,65370>>, <<66560,66639>>, <<66736,66771>>,
      <<66776,66811>>, <<66928,66938>>, <<66940,66954>>, <<66956,66962>>,
      <<66964,66965>>, <<66967,66977>>, <<66979,66993>>, <<66995,67001>>,
      <<67003,67004>>, <<68736,68786>>, <<68800,68850>>, <<71840,71903>>,
      <<93760,93823>>, <<119808,119892>>, <<119894,119964>>,
      <<119966,119967>>, <<119970,119970>>, <<119973,119974>>,
      <<119977,119980>>, <<119982,119993>>, <<119995,119995>>,
      <<119997,120003>>, <<120005,120069>>, <<120071,120074>>,
      <<120077,120084>>, <<120086,120092>>, <<120094,120121>>,
      <<120123,120126>>, <<120128,120132>>, <<120134,120134>>,
      <<120138,120144>>, <<120146,120485>>, <<120488,120512>>,
      <<120514,120538>>, <<120540,120570>>, <<120572,120596>>,
      <<120598,120628>>, <<120630,120654>>, <<120656,120686>>,
      <<120688,120712>>, <<120714,120744>>, <<120746,120770>>,
      <<120772,120779>>, <<122624,122633>>, <<122635,122654>>,
      <<125184,125251>>, <<127280,127305>>, <<127312,127337>>,
      <<127344,127369>> }}

\* str.lower() of the character c by itself: U+0130 gives i and the
\* combining dot above, the capital sigma the small sigma.
LowerChar(c) ==
    IF c = 304 THEN <<105, 775>>
    ELSE IF RulesOf(c) # {} THEN <<c + (CHOOSE r \in RulesOf(c) : TRUE)[4]>>
    ELSE <<c>>

\* Whether the capital sigma at position i of s ends a word: the nearest
\* character before it that is not case-ignorable is cased, and the
\* nearest such character after it, if any, is not.
final_sigma(s, i) ==
    LET before == {j \in 1..(i - 1) : s[j] \notin CaseIgnorable}
        after == {j \in (i + 1)..Len(s) : s[j] \notin CaseIgnorable}
    IN  /\ before # {}
        /\ s[MaxOf(before)] \in Cased
        /\ (after = {} \/ s[MinOf(after)] \notin Cased)

\* str.lower(): character by character; a capital sigma (U+03A3) that ends
\* a word becomes the final sigma (U+03C2).
lower(s) ==
    Flatten([i \in 1..Len(s) |->
                IF s[i] = 931 /\ final_sigma(s, i) THEN <<962>>
                ELSE LowerChar(s[i])])

\* s.replace(" ", "_")
replace_space(s) == [i \in 1..Len(s) |-> IF s[i] = 32 THEN 95 ELSE s[i]]

\* ------------------------------- src/extract_metadata_from_pdf_llm.py

\* Longest directory listing handed to process_workbook / process_all_pdfs.
MaxFiles == 2

endswith(s, suffix) ==
    /\ Len(s) >= Len(suffix)
    /\ SubSeq(s, Len(s) - Len(suffix) + 1, Len(s)) = suffix

startswith(s, prefix) ==
    /\ Len(s) >= Len(prefix)
    /\ SubSeq(s, 1, Len(prefix)) = prefix

\* os.path.splitext(name)[0] of a name without path separator: the name up
\* to its last dot, when a character that is no dot stands before that
\* dot; else (no dot, or only dots before the last one) the whole name.
splitext_root(name) ==
    LET dots == {i \in 1..Len(name) : name[i] = 46}
    IN  IF dots = {} \/ \A i \in 1..(MaxOf(dots) - 1) : name[i] = 46
        THEN name
        ELSE SubSeq(name, 1, MaxOf(dots) - 1)

\* Line 84: basename of the workbook folder.
WorkbookName == <<87, 98>>  \* "Wb"

\* The names os.listdir can report (distinct names of one folder).
FileNames ==
    { <<65, 32, 98, 46, 112, 100, 102>>,  \* "A b.pdf"
      <<97, 95, 98, 46, 112, 100, 102>>,  \* "a_b.pdf"
      <<99, 46, 80, 68, 70>>,  \* "c.PDF"
      <<99, 46, 112, 100, 102>>,  \* "c.pdf"
      <<46, 46, 112, 100, 102>>,  \* "..pdf"
      <<110, 46, 116, 120, 116>> }  \* "n.txt"

\* The directory listings: sequences of distinct names.
Listings ==
    {l \in SeqsUpTo(FileNames, MaxFiles) :
        \A i, j \in 1..Len(l) : i # j => l[i] # l[j]}

\* Lines 88 and 203: file_name.lower().endswith(".pdf")
\* ".pdf"
is_pdf(file_name) == endswith(lower(file_name), <<46, 112, 100, 102>>)

\* Lines 90-91: the id put into the prompt.
dashboard_id(workbook_name, file_name) ==
    lower(replace_space(workbook_name \o <<95>> \o splitext_root(file_name)))

\* The fields of the Dashboard JSON schema.
DashboardFields == {"id", "name", "description", "tags", "url", "kpis"}

\* JSON values the generator's text can decode to.  An object carries the
\* set of its keys and the value of its "id" (<<>> when absent or empty).
JsonObject(keys, id) == [kind |-> "object", keys |-> keys, id |-> id]

JsonArray == [kind |-> "array", keys |-> {}, id |-> <<>>]

\* The pieces response.text is made of: the opening fence with its json
\* tag (three backticks and the word json), the bare fence (three
\* backticks), a line break, one JSON document, text that is no JSON.
TokFenceJson == [t |-> "fence_json"]

TokFence == [t |-> "fence"]

TokNl == [t |-> "newline"]

TokProse == [t |-> "prose"]

TokJson(v) == [t |-> "json", v |-> v]

\* What the generator answers for one document: a shape of response, and
\* the id it writes: the one of the prompt (echo), an empty one, or one of
\* its own.
ReplyShapes == {"plain", "fenced_json", "fenced_bare", "prose", "no_kpis", "array"}

ReplyIds == {"echo", "empty", "own"}

Replies ==
    {[shape |-> sh, id |-> "echo"] : sh \in ReplyShapes}
        \cup {[shape |-> "plain", id |-> i] : i \in ReplyIds}

\* How one document behaves: it cannot be read, the generator call
\* raises, or the generator answers.
FileBehaviours ==
    {[read |-> "unreadable"], [read |-> "ok", gen |-> "raises"]}
        \cup {[read |-> "ok", gen |-> "answers", reply |-> r] : r \in Replies}

\* response.text of line 65 for a reply, given the id of the prompt.
response_text(reply, prompt_id) ==
    LET id == CASE reply.id = "echo" -> prompt_id
                [] reply.id = "empty" -> <<>>
                [] OTHER -> <<120>>  \* "x"
        full == TokJson(JsonObject(DashboardFields, id))
    IN  CASE reply.shape = "plain" -> <<full, TokNl>>
          [] reply.shape = "fenced_json" -> <<TokFenceJson, TokNl, full, TokNl, TokFence>>
          [] reply.shape = "fenced_bare" -> <<TokFence, TokNl, full, TokNl, TokFence>>
          [] reply.shape = "prose" -> <<TokProse, TokNl, full>>
          [] reply.shape = "no_kpis" ->
                <<TokJson(JsonObject(DashboardFields \ {"kpis"}, id))>>
          [] OTHER -> <<TokJson(JsonArray)>>

RECURSIVE lstrip(_)
lstrip(s) == IF s # <<>> /\ Head(s) = TokNl THEN lstrip(Tail(s)) ELSE s

RECURSIVE rstrip(_)
rstrip(s) ==
    IF s # <<>> /\ s[Len(s)] = TokNl THEN rstrip(SubSeq(s, 1, Len(s) - 1)) ELSE s

\* str.strip()
strip(s) == rstrip(lstrip(s))

\* Lines 65-70: strip, drop a leading json fence, drop a trailing fence,
\* strip.
clean_output(text) ==
    LET a == strip(text)
        b == IF startswith(a, <<TokFenceJson>>) THEN Tail(a) ELSE a
        c == IF endswith(b, <<TokFence>>) THEN SubSeq(b, 1, Len(b) - 1) ELSE b
    IN  strip(c)

\* json.loads(output) succeeds when the text is one JSON document.
json_valid(output) == Len(output) = 1 /\ output[1].t = "json"

\* Lines 59-79 from the response on: the decoded value whatever its
\* shape, or the ValueError of line 75.
extract_dashboard_metadata(text) ==
    LET output == clean_output(text)
    IN  IF json_valid(output)
        THEN [kind |-> "returned", value |-> output[1].v]
        ELSE [kind |-> "raised", error |-> "ValueError"]

\* Lines 89-101 for one PDF: read_pdf, then extract_dashboard_metadata.
process_one(workbook_name, file_name, behaviour) ==
    IF behaviour.read = "unreadable"
    THEN [kind |-> "raised", error |-> "FileDataError"]
    ELSE IF behaviour.gen = "raises"
    THEN [kind |-> "raised", error |-> "APIError"]
    ELSE extract_dashboard_metadata(
             response_text(behaviour.reply, dashboard_id(workbook_name, file_name)))

RECURSIVE workbook_loop(_, _, _, _)
\* Lines 87-105: the loop over os.listdir; an exception of one file ends
\* the call.
workbook_loop(workbook_name, files, behaviours, dashboards_data) ==
    IF files = <<>>
    THEN [kind |-> "returned", data |-> dashboards_data]
    ELSE IF ~is_pdf(Head(files))
    THEN workbook_loop(workbook_name, Tail(files), Tail(behaviours), dashboards_data)
    ELSE LET r == process_one(workbook_name, Head(files), Head(behaviours))
         IN  IF r.kind = "raised"
             THEN [kind |-> "raised", error |-> r.error]
             ELSE workbook_loop(workbook_name, Tail(files), Tail(behaviours),
                                Append(dashboards_data, r.value))

process_workbook(workbook_name, files, behaviours) ==
    workbook_loop(workbook_name, files, behaviours, <<>>)

\* An entry of os.listdir(pdfs_dir): a workbook folder with its listing and
\* the behaviour of its files, or something that is no directory.
Folder(name, files, behaviours) ==
    [name |-> name, isdir |-> TRUE, files |-> files, behaviours |-> behaviours]

PlainFile(name) ==
    [name |-> name, isdir |-> FALSE, files |-> <<>>, behaviours |-> <<>>]

\* A second workbook folder beside Wb: its listings, and its files either
\* answered with the id of the prompt or unreadable.
OtherFolders ==
    UNION {{Folder(<<79, 116, 104, 101, 114>>, l, b) :  \* "Other"
                b \in [1..Len(l) ->
                         {[read |-> "unreadable"],
                          [read |-> "ok", gen |-> "answers",
                           reply |-> [shape |-> "plain", id |-> "echo"]]}]} :
              l \in {<<<<99, 46, 112, 100, 102>>>>,  \* "c.pdf"
                     <<<<99, 46, 112, 100, 102>>,  \* "c.pdf"
                       <<65, 32, 98, 46, 112, 100, 102>>>>}}  \* "A b.pdf"

\* What os.listdir(pdfs_dir) can report: the folder wb, a second folder
\* and a plain file, in any order, each at most once.
DirListings(wb) ==
    \* "notes.txt"
    LET plain == PlainFile(<<110, 111, 116, 101, 115, 46, 116, 120, 116>>)
        entries == {wb, plain} \cup OtherFolders
    IN  {l \in SeqsUpTo(entries, Cardinality({e.name : e \in entries})) :
            \A i, j \in 1..Len(l) : i # j => l[i].name # l[j].name}

RECURSIVE all_workbooks_loop(_, _)
\* Lines 114-118 (and the "All at Once" branch of app.py, lines 116-119):
\* every entry that is a directory is processed as a workbook and its
\* records extend one list; an exception of process_workbook ends the call.
all_workbooks_loop(entries, all_dashboards) ==
    IF entries = <<>>
    THEN [kind |-> "returned", data |-> all_dashboards]
    ELSE IF ~Head(entries).isdir
    THEN all_workbooks_loop(Tail(entries), all_dashboards)
    ELSE LET r == process_workbook(Head(entries).name, Head(entries).files,
                                   Head(entries).behaviours)
         IN  IF r.kind = "raised"
             THEN [kind |-> "raised", error |-> r.error]
             ELSE all_workbooks_loop(Tail(entries), all_dashboards \o r.data)

process_all_workbooks(entries) == all_workbooks_loop(entries, <<>>)

\* ----------------------------------- src/extract_metadata_from_pdfs.py

\* process_pdf_file as far as the batch is concerned: fitz.open raises for
\* an unreadable document, else a record whose id is the file's base name
\* without extension (line 192).
process_pdf_file(file_name, behaviour) ==
    IF behaviour.read = "unreadable"
    THEN [kind |-> "raised", error |-> "FileDataError"]
    ELSE [kind |-> "returned",
          value |-> JsonObject(DashboardFields, splitext_root(file_name))]

RECURSIVE all_pdfs_loop(_, _, _)
\* Lines 207-213: try / except around every file.
all_pdfs_loop(files, behaviours, out) ==
    IF files = <<>>
    THEN [kind |-> "returned", data |-> out]
    ELSE IF ~is_pdf(Head(files))
    THEN all_pdfs_loop(Tail(files), Tail(behaviours), out)
    ELSE LET r == process_pdf_file(Head(files), Head(behaviours))
         IN  all_pdfs_loop(Tail(files), Tail(behaviours),
                           IF r.kind = "raised" THEN out ELSE Append(out, r.value))

process_all_pdfs(files, behaviours) == all_pdfs_loop(files, behaviours, <<>>)

\* process_workbook(workbook_folder) of the model-assisted path.
ProcessWorkbook ==
    /\ wbPath = "none"
    /\ wbPath' = "llm"
    /\ wbOutcome' = process_workbook(WorkbookName, wbFiles, wbBehaviours)
    /\ UNCHANGED <<wbFiles, wbBehaviours>>
    /\ UNCHANGED notWorkbook

\* process_all_pdfs(pdf_dir) of the heuristic path.
ProcessAllPdfs ==
    /\ wbPath = "none"
    /\ wbPath' = "heuristic"
    /\ wbOutcome' = process_all_pdfs(wbFiles, wbBehaviours)
    /\ UNCHANGED <<wbFiles, wbBehaviours>>
    /\ UNCHANGED notWorkbook

\* process_all_workbooks(pdfs_dir) over the entries os.listdir reports.
ProcessAllWorkbooks(entries) ==
    /\ wbPath = "none"
    /\ wbPath' = "all"
    /\ wbOutcome' = process_all_workbooks(entries)
    /\ UNCHANGED <<wbFiles, wbBehaviours>>
    /\ UNCHANGED notWorkbook

WorkbookNext ==
    \/ ProcessWorkbook
    \/ ProcessAllPdfs
    \/ \E entries \in DirListings(Folder(WorkbookName, wbFiles, wbBehaviours)) :
           ProcessAllWorkbooks(entries)

\* ------------------------ src/extract_metadata_from_pdfs.py: KPI detection

\* A-Z and a-z.
Letters == (65..90) \cup (97..122)

\* The code points of the digit zero of every script (category Nd): each
\* is followed by the digits one to nine of its script.
DigitZeros ==
    { 48, 1632, 1776, 1984, 2406, 2534, 2662, 2790, 2918, 3046, 3174,
      3302, 3430, 3558, 3664, 3792, 3872, 4160, 4240, 6112, 6160, 6470,
      6608, 6784, 6800, 6992, 7088, 7232, 7248, 42528, 43216, 43264,
      43472, 43504, 43600, 44016, 65296, 66720, 68912, 69734, 69872,
      69942, 70096, 70384, 70736, 70864, 71248, 71360, 71472, 71904,
      72016, 72784, 73040, 73120, 92768, 92864, 93008, 120782, 120792,
      120802, 120812, 120822, 123200, 123632, 125264, 130032 }

\* \d of the regular expressions: every decimal digit.
Digits == UNION {z..(z + 9) : z \in DigitZeros}

\* \s of the regular expressions, and what str.strip() removes: U+0009 to
\* U+000D, U+001C to U+001F, space, U+0085, U+00A0, U+1680, U+2000 to
\* U+200A, U+2028, U+2029, U+202F, U+205F, U+3000.
Whitespace ==
    (9..13) \cup (28..32) \cup {133, 160, 5760} \cup (8192..8202)
        \cup {8232, 8233, 8239, 8287, 12288}

\* Where str.splitlines() breaks a text (besides the pair \r\n): U+000A to
\* U+000D, U+001C to U+001E, U+0085, U+2028, U+2029.
LineBreaks == (10..13) \cup (28..30) \cup {133, 8232, 8233}

\* [A-Za-z0-9 &/._\-] of the first two patterns (line 26, 27).
\* (space, ampersand, slash, full stop, underscore, hyphen beside them).
NameChars == Letters \cup (48..57) \cup {32, 38, 47, 46, 95, 45}

\* [:\s\-] of the first two patterns.
SepChars == Whitespace \cup {58, 45}

\* What a lower-case letter k of the third pattern matches under re.I: the
\* letter, its capital, and for i, k and s also U+0130 and U+0131, the
\* Kelvin sign U+212A, the long s U+017F.
IgnoreCase(k) ==
    {k, k - 32} \cup
        (CASE k = 105 -> {304, 305}
           [] k = 107 -> {8490}
           [] k = 115 -> {383}
           [] OTHER -> {})

\* [A-Za-z ] of the third pattern (line 28) under re.I.
WordChars == Letters \cup {32, 304, 305, 383, 8490}

\* [:\-\u2013] of the third pattern and of the split of line 143: colon,
\* hyphen, en dash.
DashChars == {58, 45, 8211}

\* The keywords of the third pattern, in the order of its alternation.
PatternKeywords ==
    << <<114, 97, 116, 101>>,  \* "rate"
       <<114, 97, 116, 105, 111>>,  \* "ratio"
       <<115, 99, 111, 114, 101>>,  \* "score"
       <<99, 111, 117, 110, 116>>,  \* "count"
       <<118, 97, 108, 117, 101>>,  \* "value"
       <<118, 97, 114, 105, 97, 110, 99, 101>>,  \* "variance"
       <<103, 114, 111, 119, 116, 104>>,  \* "growth"
       <<109, 101, 97, 110>>,  \* "mean"
       <<97, 118, 103>>,  \* "avg"
       <<97, 118, 101, 114, 97, 103, 101>>,  \* "average"
       <<116, 117, 114, 110, 111, 118, 101, 114>>,  \* "turnover"
       <<99, 111, 110, 118, 101, 114, 115, 105, 111, 110>>,  \* "conversion"
       <<114, 101, 118, 101, 110, 117, 101>>,  \* "revenue"
       <<115, 97, 108, 101, 115>>,  \* "sales"
       <<99, 104, 117, 114, 110>>,  \* "churn"
       <<114, 101, 116, 101, 110, 116, 105, 111, 110>> >>  \* "retention"

\* KPI_KEYWORDS (line 32).
KPI_KEYWORDS ==
    { <<114, 97, 116, 101>>,  \* "rate"
      <<114, 97, 116, 105, 111>>,  \* "ratio"
      <<115, 99, 111, 114, 101>>,  \* "score"
      <<99, 111, 117, 110, 116>>,  \* "count"
      <<118, 97, 108, 117, 101>>,  \* "value"
      <<118, 97, 114, 105, 97, 110, 99, 101>>,  \* "variance"
      <<103, 114, 111, 119, 116, 104>>,  \* "growth"
      <<97, 118, 101, 114, 97, 103, 101>>,  \* "average"
      <<109, 101, 97, 110>>,  \* "mean"
      <<116, 117, 114, 110, 111, 118, 101, 114>>,  \* "turnover"
      <<99, 111, 110, 118, 101, 114, 115, 105, 111, 110>>,  \* "conversion"
      <<114, 101, 118, 101, 110, 117, 101>>,  \* "revenue"
      <<115, 97, 108, 101, 115>>,  \* "sales"
      <<99, 104, 117, 114, 110>>,  \* "churn"
      <<114, 101, 116, 101, 110, 116, 105, 111, 110>>,  \* "retention"
      <<117, 112, 116, 105, 109, 101>>,  \* "uptime"
      <<109, 116, 116, 114>>,  \* "mttr"
      <<110, 112, 115>>,  \* "nps"
      <<99, 115, 97, 116>> }  \* "csat"

\* The character at position p (1-based), -1 outside the text.
At(text, p) == IF 1 <= p /\ p <= Len(text) THEN text[p] ELSE 0 - 1

\* Every position of a..b lies in the text and holds a character of S.
AllIn(text, a, b, S) == b <= Len(text) /\ \A q \in a..b : text[q] \in S

\* text[a..b] of the slice notation: clipped to the text, empty when b < a.
Slice(text, a, b) ==
    LET hi == IF b < Len(text) THEN b ELSE Len(text)
    IN  IF hi < a THEN <<>> ELSE SubSeq(text, a, hi)

\* The number of consecutive characters of S from p on.
RunLength(text, p, S) ==
    IF p > Len(text) \/ text[p] \notin S THEN 0
    ELSE CHOOSE n \in 1..(Len(text) - p + 1) :
            /\ AllIn(text, p, p + n - 1, S)
            /\ (p + n > Len(text) \/ text[p + n] \notin S)

IsDigit(c) == c \in Digits

IsSpace(c) == c \in Whitespace

RECURSIVE LexGreater(_, _)
\* t comes before u in the order a backtracking matcher tries its choices
\* (every component: the larger value first).
LexGreater(t, u) ==
    /\ t # <<>>
    /\ \/ Head(t) > Head(u)
       \/ Head(t) = Head(u) /\ LexGreater(Tail(t), Tail(u))

\* The choice the matcher finds first among the successful ones.
FirstChoice(S) == CHOOSE t \in S : \A u \in S \ {t} : LexGreater(t, u)

NoMatch == [found |-> FALSE]

Match(name, value, end) ==
    [found |-> TRUE, name |-> name, value |-> value, end |-> end]

\* (?:[\.,]\d+)? at p, greedy: the position after it.
AfterFraction(text, p) ==
    IF At(text, p) \in {46, 44} /\ IsDigit(At(text, p + 1))
    THEN p + 1 + RunLength(text, p + 1, Digits)
    ELSE p

Min(a, b) == IF a < b THEN a ELSE b

\* \d{1,3}(?:[\.,]\d+)?\s?% at p: the choices <<digits, fraction digits>>
\* for which the rest of the pattern matches.
PercentChoices(text, p) ==
    {t \in UNION {
              {<<d, 0>>} \cup
                  (IF At(text, p + d) \in {46, 44}
                   THEN {<<d, m>> : m \in 1..RunLength(text, p + d + 1, Digits)}
                   ELSE {}) :
              d \in 1..Min(3, RunLength(text, p, Digits))} :
        LET r == IF t[2] = 0 THEN p + t[1] ELSE p + t[1] + 1 + t[2]
        IN  \/ At(text, r) = 37
            \/ IsSpace(At(text, r)) /\ At(text, r + 1) = 37}

\* The end (exclusive) of the percentage matched with the choice t.
PercentEnd(text, p, t) ==
    LET r == IF t[2] = 0 THEN p + t[1] ELSE p + t[1] + 1 + t[2]
    IN  IF IsSpace(At(text, r)) /\ At(text, r + 1) = 37 THEN r + 2 ELSE r + 1

\* The choices <<name length, separator length>> of the first two patterns
\* at s: {3,100} name characters, then {1,4} separator characters.
NameSepChoices(text, s) ==
    UNION {{<<n, k>> : k \in 1..Min(4, RunLength(text, s + n, SepChars))} :
              n \in 3..Min(100, RunLength(text, s, NameChars))}

\* Pattern 1 (line 26) at position s: name, separator, percentage.
match_percent(text, s) ==
    LET choices ==
            UNION {{<<t[1], t[2], c[1], c[2]>> :
                        c \in PercentChoices(text, s + t[1] + t[2])} :
                      t \in NameSepChoices(text, s)}
    IN  IF choices = {} THEN NoMatch
        ELSE LET t == FirstChoice(choices)
                 p == s + t[1] + t[2]
                 e == PercentEnd(text, p, <<t[3], t[4]>>)
             IN  Match(Slice(text, s, s + t[1] - 1), Slice(text, p, e - 1), e)

\* Whether [$\u20ac\u00a3]?\d starts at p (dollar, euro, pound).
NumberStarts(text, p) ==
    \/ IsDigit(At(text, p))
    \/ At(text, p) \in {36, 8364, 163} /\ IsDigit(At(text, p + 1))

\* The end of [$\u20ac\u00a3]?\d{1,3}(?:[,\d]{0,3})*(?:\.\d+)? at p, greedy.
NumberEnd(text, p) ==
    LET a == IF IsDigit(At(text, p)) THEN p ELSE p + 1
        b == a + Min(3, RunLength(text, a, Digits))
        c == b + RunLength(text, b, Digits \cup {44})
    IN  IF At(text, c) = 46 /\ IsDigit(At(text, c + 1))
        THEN c + 1 + RunLength(text, c + 1, Digits)
        ELSE c

\* Pattern 2 (line 27) at position s: name, separator, number.  The number
\* is an unnamed group: the value read from the match is empty.
match_number(text, s) ==
    LET choices ==
            {t \in NameSepChoices(text, s) : NumberStarts(text, s + t[1] + t[2])}
    IN  IF choices = {} THEN NoMatch
        ELSE LET t == FirstChoice(choices)
             IN  Match(Slice(text, s, s + t[1] - 1), <<>>,
                       NumberEnd(text, s + t[1] + t[2]))

\* Pattern 3 (line 28, case-insensitive) at position s: a lazy run of
\* {2,50} letters and spaces, a keyword, \s+, an optional dash, \s*, then
\* \d{1,3}(?:[\.,]\d+)?\s?%?.  A choice is
\* <<-run length, -keyword number, spaces, dash, spaces>>.
match_keyword(text, s) ==
    LET afterKw(j, kw) == s + j + Len(PatternKeywords[kw])
        choices ==
            UNION {UNION {UNION {UNION {
                {<<0 - j, 0 - kw, w1, c, w2>> :
                    w2 \in {w \in 0..RunLength(text, afterKw(j, kw) + w1 + c, Whitespace) :
                               IsDigit(At(text, afterKw(j, kw) + w1 + c + w))}} :
                c \in {x \in {0, 1} :
                          x = 1 => At(text, afterKw(j, kw) + w1) \in DashChars}} :
                w1 \in 1..RunLength(text, afterKw(j, kw), Whitespace)} :
                kw \in {k \in 1..Len(PatternKeywords) :
                           \A q \in 1..Len(PatternKeywords[k]) :
                               At(text, s + j + q - 1)
                                   \in IgnoreCase(PatternKeywords[k][q])}} :
                j \in 2..Min(50, RunLength(text, s, WordChars))}
    IN  IF choices = {} THEN NoMatch
        ELSE LET t == FirstChoice(choices)
                 nameEnd == afterKw(0 - t[1], 0 - t[2])
                 p == nameEnd + t[3] + t[4] + t[5]
                 a == AfterFraction(text, p + Min(3, RunLength(text, p, Digits)))
                 b == IF IsSpace(At(text, a)) THEN a + 1 ELSE a
                 e == IF At(text, b) = 37 THEN b + 1 ELSE b
             IN  Match(Slice(text, s, nameEnd - 1), Slice(text, p, e - 1), e)

\* KPI_PATTERNS[pat] tried at position s.
match_at(pat, text, s) ==
    CASE pat = 1 -> match_percent(text, s)
      [] pat = 2 -> match_number(text, s)
      [] OTHER -> match_keyword(text, s)

RECURSIVE finditer(_, _, _)
\* pat.finditer(text) from position s on: the leftmost match, then the
\* matches after its end.
finditer(pat, text, s) ==
    IF s > Len(text) THEN <<>>
    ELSE LET m == match_at(pat, text, s)
         IN  IF m.found
             THEN <<m>> \o finditer(pat, text, m.end)
             ELSE finditer(pat, text, s + 1)

RECURSIVE lstrip_chars(_, _)
lstrip_chars(s, chars) ==
    IF s # <<>> /\ Head(s) \in chars THEN lstrip_chars(Tail(s), chars) ELSE s

RECURSIVE rstrip_chars(_, _)
rstrip_chars(s, chars) ==
    IF s # <<>> /\ s[Len(s)] \in chars
    THEN rstrip_chars(SubSeq(s, 1, Len(s) - 1), chars)
    ELSE s

\* str.strip(chars)
strip_chars(s, chars) == rstrip_chars(lstrip_chars(s, chars), chars)

\* str.strip()
str_strip(s) == strip_chars(s, Whitespace)

RECURSIVE collapse_spaces(_)
\* re.sub(r"\s{2,}", " ", s): every run of two or more whitespace
\* characters becomes one space.
collapse_spaces(s) ==
    IF s = <<>> THEN <<>>
    ELSE IF RunLength(s, 1, Whitespace) >= 2
    THEN <<32>> \o collapse_spaces(SubSeq(s, RunLength(s, 1, Whitespace) + 1, Len(s)))
    ELSE <<Head(s)>> \o collapse_spaces(Tail(s))

\* sub occurs in s.
Contains(s, sub) ==
    \E i \in 1..(Len(s) - Len(sub) + 1) : SubSeq(s, i, i + Len(sub) - 1) = sub

RECURSIVE splitlines(_)
\* str.splitlines(): the lines end at a character of LineBreaks or at the
\* pair of carriage return and line break.
splitlines(text) ==
    IF text = <<>> THEN <<>>
    ELSE LET ends == {i \in 1..Len(text) : text[i] \in LineBreaks}
             n == IF ends = {} THEN Len(text)
                  ELSE (CHOOSE i \in ends : \A k \in ends : i <= k) - 1
             w == IF At(text, n + 1) = 13 /\ At(text, n + 2) = 10 THEN 2 ELSE 1
         IN  <<Slice(text, 1, n)>>
                 \o splitlines(Slice(text, n + w + 1, Len(text)))

\* re.split(r"[:\-\u2013]{1,2}", line, maxsplit=1)
split_once(line) ==
    LET hits == {i \in 1..Len(line) : line[i] \in DashChars}
    IN  IF hits = {} THEN <<line>>
        ELSE LET i == CHOOSE x \in hits : \A y \in hits : x <= y
                 w == IF At(line, i + 1) \in DashChars THEN 2 ELSE 1
             IN  <<Slice(line, 1, i - 1), Slice(line, i + w, Len(line))>>

\* f"Detected value: {value}"
detected(value) ==
    \* "Detected value: "
    <<68, 101, 116, 101, 99, 116, 101, 100, 32, 118, 97, 108, 117, 101, 58,
      32>> \o value

\* Line 141: the line holds a percent sign, a dollar amount or a keyword.
line_triggers(line_stripped) ==
    \/ 37 \in {line_stripped[i] : i \in 1..Len(line_stripped)}
    \/ \E i \in 1..Len(line_stripped) :
          /\ line_stripped[i] = 36
          /\ \/ IsDigit(At(line_stripped, i + 1))
             \/ IsSpace(At(line_stripped, i + 1)) /\ IsDigit(At(line_stripped, i + 2))
    \/ \E k \in KPI_KEYWORDS : Contains(lower(line_stripped), k)

\* The state of the two detection loops: the list and the set of names.
Acc(kpis, found_names) == [kpis |-> kpis, found_names |-> found_names]

\* Lines 124-133 for one match.
pattern_step(acc, m) ==
    LET name == strip_chars(m.name, {32, 58, 10, 9})
        value == str_strip(m.value)
        name_clean == collapse_spaces(name)
        desc == IF value # <<>> THEN detected(value) ELSE <<>>
    IN  IF name = <<>> \/ lower(name_clean) \in acc.found_names
        THEN acc
        ELSE Acc(Append(acc.kpis, [name |-> name_clean, description |-> desc]),
                 acc.found_names \cup {lower(name_clean)})

\* Lines 137-155 for one line.
line_step(acc, line) ==
    LET line_stripped == str_strip(line)
        parts == split_once(line_stripped)
        cand_name == str_strip(parts[1])
        candidate_words == collapse_spaces(line_stripped)
    IN  IF Len(line_stripped) < 5 \/ ~line_triggers(line_stripped)
        THEN acc
        ELSE IF Len(parts) = 2
        THEN IF Len(cand_name) > 2 /\ lower(cand_name) \notin acc.found_names
             THEN Acc(Append(acc.kpis,
                             [name |-> cand_name,
                              description |-> detected(str_strip(parts[2]))]),
                      acc.found_names \cup {lower(cand_name)})
             ELSE acc
        ELSE IF Len(candidate_words) > 10
                    /\ lower(candidate_words) \notin acc.found_names
             THEN Acc(Append(acc.kpis,
                             [name |-> candidate_words, description |-> <<>>]),
                      acc.found_names \cup {lower(candidate_words)})
             ELSE acc

RECURSIVE fold_patterns(_, _)
fold_patterns(acc, matches) ==
    IF matches = <<>> THEN acc
    ELSE fold_patterns(pattern_step(acc, Head(matches)), Tail(matches))

RECURSIVE fold_lines(_, _)
fold_lines(acc, lines) ==
    IF lines = <<>> THEN acc
    ELSE fold_lines(line_step(acc, Head(lines)), Tail(lines))

\* The matches of the three patterns, pattern by pattern (lines 122-123).
all_matches(text) ==
    finditer(1, text, 1) \o finditer(2, text, 1) \o finditer(3, text, 1)

RECURSIVE dedupe(_, _)
\* Lines 158-166: the first entry of every stripped, lower-cased name.
dedupe(kpis, seen) ==
    IF kpis = <<>> THEN <<>>
    ELSE LET n == str_strip(Head(kpis).name)
         IN  IF lower(n) \in seen
             THEN dedupe(Tail(kpis), seen)
             ELSE <<[name |-> n, description |-> Head(kpis).description]>>
                      \o dedupe(Tail(kpis), seen \cup {lower(n)})

\* extract_kpis_from_text(text)
extract_kpis_from_text(text) ==
    LET after1 == fold_patterns(Acc(<<>>, {}), all_matches(text))
        after2 == fold_lines(after1, splitlines(text))
    IN  dedupe(after2.kpis, {})

MaxLines == 2

\* The pieces the texts are made of, joined by line breaks.  One holds a
\* form feed (12), which is a line break and white space as well; two
\* start with the Cyrillic letter zhe, capital (1046) and small (1078);
\* two with the Greek capital alpha (913) and a sigma, capital (931) and
\* small (963); one holds the Arabic-Indic digit five (1637).
KpiLines ==
    { <<84, 101, 97, 32, 82, 97, 116, 101, 58, 32, 53, 37>>,  \* "Tea Rate: 5%"
      <<116, 101, 97, 32, 114, 97, 116, 101, 32, 55>>,  \* "tea rate 7"
      \* " Tea rate - up"
      <<32, 84, 101, 97, 32, 114, 97, 116, 101, 32, 45, 32, 117, 112>>,
      \* "tea  rate: ok"
      <<116, 101, 97, 32, 32, 114, 97, 116, 101, 58, 32, 111, 107>>,
      \* U+0416 " net growth"
      <<1046>> \o <<32, 110, 101, 116, 32, 103, 114, 111, 119, 116, 104>>,
      \* U+0436 " NET growth"
      <<1078>> \o <<32, 78, 69, 84, 32, 103, 114, 111, 119, 116, 104>>,
      \* "Tea rate" form feed "5%"
      <<84, 101, 97, 32, 114, 97, 116, 101>> \o <<12>> \o <<53, 37>>,
      <<84, 69, 65, 32, 82, 65, 84, 69, 32, 57, 37>>,  \* "TEA RATE 9%"
      <<83, 97, 108, 101, 115, 58, 32, 36, 49, 50>>,  \* "Sales: $12"
      <<913, 931>> \o <<32, 114, 97, 116, 101, 58, 32, 49>>,  \* U+0391 U+03A3 " rate: 1"
      <<913, 963>> \o <<32, 114, 97, 116, 101, 58, 32, 50>>,  \* U+0391 U+03C3 " rate: 2"
      <<97, 98, 99, 32>> \o <<1637>> \o <<37>> }  \* "abc " U+0665 "%"

RECURSIVE join_lines(_)
\* "\n".join(lines)
join_lines(lines) ==
    IF lines = <<>> THEN <<>>
    ELSE IF Len(lines) = 1 THEN lines[1]
    ELSE lines[1] \o <<10>> \o join_lines(Tail(lines))

\* The texts of at most MaxLines lines.
KpiTexts == {join_lines(ls) : ls \in SeqsUpTo(KpiLines, MaxLines)}

\* Line 123, one step of pat.finditer(text): a match at the scan position,
\* then the body of the loop (lines 124-133).
PatternMatch ==
    /\ kpc = "patterns"
    /\ kPos <= Len(kText)
    /\ match_at(kPat, kText, kPos).found
    /\ kKpis' = pattern_step(Acc(kKpis, kFound), match_at(kPat, kText, kPos)).kpis
    /\ kFound' =
          pattern_step(Acc(kKpis, kFound), match_at(kPat, kText, kPos)).found_names
    /\ kPos' = match_at(kPat, kText, kPos).end
    /\ UNCHANGED <<kText, kpc, kPat, kLines, kOut>>
    /\ UNCHANGED notKpi

\* Line 123: no match at the scan position, the scan moves on.
PatternSkip ==
    /\ kpc = "patterns"
    /\ kPos <= Len(kText)
    /\ ~match_at(kPat, kText, kPos).found
    /\ kPos' = kPos + 1
    /\ UNCHANGED <<kText, kpc, kPat, kLines, kKpis, kFound, kOut>>
    /\ UNCHANGED notKpi

\* Line 122: the next pattern of KPI_PATTERNS.
NextPattern ==
    /\ kpc = "patterns"
    /\ kPos > Len(kText)
    /\ kPat < 3
    /\ kPat' = kPat + 1
    /\ kPos' = 1
    /\ UNCHANGED <<kText, kpc, kLines, kKpis, kFound, kOut>>
    /\ UNCHANGED notKpi

\* Line 136: the patterns are done, text.splitlines().
StartLines ==
    /\ kpc = "patterns"
    /\ kPos > Len(kText)
    /\ kPat = 3
    /\ kLines' = splitlines(kText)
    /\ kpc' = "lines"
    /\ UNCHANGED <<kText, kPat, kPos, kKpis, kFound, kOut>>
    /\ UNCHANGED notKpi

\* Lines 137-155 for the next line.
LineStep ==
    /\ kpc = "lines"
    /\ kLines # <<>>
    /\ kKpis' = line_step(Acc(kKpis, kFound), Head(kLines)).kpis
    /\ kFound' = line_step(Acc(kKpis, kFound), Head(kLines)).found_names
    /\ kLines' = Tail(kLines)
    /\ UNCHANGED <<kText, kpc, kPat, kPos, kOut>>
    /\ UNCHANGED notKpi

\* Lines 158-167: the final pass and the return.
FinalPass ==
    /\ kpc = "lines"
    /\ kLines = <<>>
    /\ kOut' = dedupe(kKpis, {})
    /\ kpc' = "done"
    /\ UNCHANGED <<kText, kPat, kPos, kLines, kKpis, kFound>>
    /\ UNCHANGED notKpi

KpiNext ==
    \/ PatternMatch
    \/ PatternSkip
    \/ NextPattern
    \/ StartLines
    \/ LineStep
    \/ FinalPass

\* ------------ src/extract_metadata_from_pdfs.py: title and description

MaxBlocks == 3

\* A block of extract_text_blocks_from_pdf (line 62).
Block(text, max_size, page) ==
    [text |-> text, max_size |-> max_size, page |-> page]

\* The blocks of the title choice: joined span texts (stripped, not empty),
\* the largest span size (0.0 when no span has one), the page index.
ChooseBlocks ==
    {Block(t, sz, pg) :
        t \in {<<65>>, <<66>>}, sz \in {0, 10, 20}, pg \in {0, 1}}  \* "A" "B"

\* list[::-1]
reverse(list) == [i \in 1..Len(list) |-> list[Len(list) + 1 - i]]

\* key=lambda b: b["max_size"] or 0
size_key(b) == IF b.max_size = 0 THEN 0 ELSE b.max_size

\* One insertion of a stable ascending sort: b goes behind every block
\* whose key is not larger.
insert_by_size(sorted, b) ==
    LET n == Cardinality({i \in 1..Len(sorted) : size_key(sorted[i]) <= size_key(b)})
    IN  SubSeq(sorted, 1, n) \o <<b>> \o SubSeq(sorted, n + 1, Len(sorted))

RECURSIVE sort_by_size(_)
\* The stable ascending sort list.sort performs.
sort_by_size(list) ==
    IF list = <<>> THEN <<>>
    ELSE insert_by_size(sort_by_size(SubSeq(list, 1, Len(list) - 1)),
                        list[Len(list)])

\* A descending sort that turns the ascending one around and with it the
\* order of equal keys.
sorted_reverse_unstable(list) == reverse(sort_by_size(list))

\* sorted(list, key=..., reverse=True) of line 100: the list is reversed,
\* sorted ascending and stable, and reversed again, so blocks of equal key
\* keep their order.
sorted_reverse(list) == reverse(sort_by_size(reverse(list)))

\* Line 98.
first_page_blocks(blocks) == SelectSeq(blocks, LAMBDA b : b.page = 0)

\* Line 99: first_page_blocks or blocks.
candidate_blocks(blocks) ==
    IF first_page_blocks(blocks) # <<>> THEN first_page_blocks(blocks) ELSE blocks

RECURSIVE desc_parts(_, _)
\* Lines 103-110: the first four distinct stripped texts that are not
\* empty and not the title (seen holds what desc_parts holds).
desc_parts(blocks, title) ==
    IF blocks = <<>> THEN <<>>
    ELSE LET before == desc_parts(SubSeq(blocks, 1, Len(blocks) - 1), title)
             txt == str_strip(blocks[Len(blocks)].text)
         IN  IF /\ txt # <<>>
                /\ txt # title
                /\ Len(before) < 4
                /\ \A i \in 1..Len(before) : before[i] # txt
             THEN Append(before, txt)
             ELSE before

RECURSIVE join_space(_)
\* " ".join(parts)
join_space(parts) ==
    IF parts = <<>> THEN <<>>
    ELSE IF Len(parts) = 1 THEN parts[1]
    ELSE parts[1] \o <<32>> \o join_space(Tail(parts))

\* choose_title_and_description(blocks)
choose_title_and_description(blocks) ==
    IF blocks = <<>> THEN [title |-> <<>>, description |-> <<>>]
    ELSE LET title == str_strip(sorted_reverse(candidate_blocks(blocks))[1].text)
         IN  [title |-> title,
              description |-> str_strip(join_space(desc_parts(blocks, title)))]

\* One call title, description = choose_title_and_description(blocks).
ChooseTitle ==
    /\ cpc = "ready"
    /\ cTitle' = choose_title_and_description(cBlocks).title
    /\ cDescription' = choose_title_and_description(cBlocks).description
    /\ cpc' = "done"
    /\ UNCHANGED cBlocks
    /\ UNCHANGED notChoose

ChooseNext ==
    \/ ChooseTitle

\* ------------------- src/extract_metadata_from_pdfs.py: process_pdf_file

MaxPdfBlocks == 3

\* Line 178: the length under which the extracted text counts as tiny.
OcrThreshold == 50

\* Line 194: the length of the excerpt that stands in for a description.
DescLimit == 500

\* The file name of the PDF.
PdfFileName == <<99, 46, 112, 100, 102>>  \* "c.pdf"

\* The blocks extract_text_blocks_from_pdf can yield for the PDF: texts of
\* 15, 22, 25 and 24 characters.
PdfBlocks ==
    { Block(
        \* "Sales Dashboard"
        <<83, 97, 108, 101, 115, 32, 68, 97, 115, 104, 98, 111, 97, 114, 100>>,
        20, 0),
      Block(
        \* "Conversion Rate: 12.5%"
        <<67, 111, 110, 118, 101, 114, 115, 105, 111, 110, 32, 82, 97, 116,
          101, 58, 32, 49, 50, 46, 53, 37>>,
        10, 0),
      Block(
        \* "Quarterly revenue by area"
        <<81, 117, 97, 114, 116, 101, 114, 108, 121, 32, 114, 101, 118, 101,
          110, 117, 101, 32, 98, 121, 32, 97, 114, 101, 97>>,
        10, 1),
      Block(
        \* "Monthly churn per region"
        <<77, 111, 110, 116, 104, 108, 121, 32, 99, 104, 117, 114, 110, 32,
          112, 101, 114, 32, 114, 101, 103, 105, 111, 110>>,
        10, 0) }

\* The texts ocr_pdf can yield for the PDF (the OCR engine ends a page
\* with a form feed, 12, after the line break, 10).
OcrTexts ==
    \* "Uptime: 99%" line feed, form feed
    { <<85, 112, 116, 105, 109, 101, 58, 32, 57, 57, 37>> \o <<10, 12>>,
      \* "Scan of sales report"
      <<83, 99, 97, 110, 32, 111, 102, 32, 115, 97, 108, 101, 115, 32, 114,
        101, 112, 111, 114, 116>> }

\* Line 175: " ".join([b["text"] for b in blocks])
full_text(blocks) == join_space([i \in 1..Len(blocks) |-> blocks[i].text])

\* Line 178: len(full_text.strip()) < 50
low_text(blocks) == Len(str_strip(full_text(blocks))) < OcrThreshold

\* Lines 175-188: the text the KPIs are read from.
pdf_combined_text(blocks, ocr_text) ==
    IF low_text(blocks) THEN ocr_text ELSE full_text(blocks)

\* Lines 191-198: the record, from the chosen title and description, the
\* text and the KPIs read from it.
build_meta(file_name, title, description, text, kpis) ==
    [kind |-> "meta",
     id |-> splitext_root(file_name),
     name |-> IF title # <<>> THEN title ELSE splitext_root(file_name),
     description |->
         IF description # <<>> THEN description
         ELSE Slice(text, 1, DescLimit) \o <<46, 46, 46>>,
     tags |-> <<>>,
     url |-> <<>>,
     kpis |-> kpis]

\* Lines 173-189: the blocks are extracted, ocr_pdf runs when their text
\* is tiny, title and description are chosen among the blocks, and
\* extract_kpis_from_text is entered with the combined text.
PdfAcquire ==
    /\ ppc = "ready"
    /\ pOcrRan' = low_text(pBlocks)
    /\ cBlocks' = pBlocks
    /\ cTitle' = choose_title_and_description(pBlocks).title
    /\ cDescription' = choose_title_and_description(pBlocks).description
    /\ cpc' = "done"
    /\ kText' = pdf_combined_text(pBlocks, pOcrText)
    /\ kpc' = "patterns"
    /\ kPat' = 1
    /\ kPos' = 1
    /\ kLines' = <<>>
    /\ kKpis' = <<>>
    /\ kFound' = {}
    /\ kOut' = <<>>
    /\ ppc' = "kpis"
    /\ UNCHANGED <<pBlocks, pOcrText, pMeta>>
    /\ UNCHANGED <<storeVars, workbookVars>>

\* Lines 189-199: extract_kpis_from_text has returned, the record is built.
PdfReturn ==
    /\ ppc = "kpis"
    /\ kpc = "done"
    /\ pMeta' = build_meta(PdfFileName, cTitle, cDescription, kText, kOut)
    /\ ppc' = "done"
    /\ UNCHANGED <<pBlocks, pOcrText, pOcrRan>>
    /\ UNCHANGED notPdf

PdfNext ==
    \/ PdfAcquire
    \/ PatternMatch
    \/ PatternSkip
    \/ NextPattern
    \/ StartLines
    \/ LineStep
    \/ FinalPass
    \/ PdfReturn

\* ------------------------------------------------------ specifications

\* The store of one workbook, empty at first: builds and searches.
InitStore ==
    /\ indexFile = Absent
    /\ metaFile = Absent
    /\ bpc = "idle"
    /\ bD = <<>>
    /\ bDim = 0
    /\ bVecs = <<>>
    /\ bMeta = <<>>
    /\ buildOutcome = "none"
    /\ bDrift = FALSE
    /\ run = 0
    /\ lastOkRun = 0
    /\ lastSearch = NoSearch
    /\ wbPath = "none"
    /\ wbFiles = <<>>
    /\ wbBehaviours = <<>>
    /\ wbOutcome = [kind |-> "none"]
    /\ kText = <<>>
    /\ kpc = "patterns"
    /\ kPat = 1
    /\ kPos = 1
    /\ kLines = <<>>
    /\ kKpis = <<>>
    /\ kFound = {}
    /\ kOut = <<>>
    /\ cBlocks = <<>>
    /\ cpc = "ready"
    /\ cTitle = <<>>
    /\ cDescription = <<>>
    /\ pBlocks = <<>>
    /\ pOcrText = <<>>
    /\ ppc = "ready"
    /\ pOcrRan = FALSE
    /\ pMeta = [kind |-> "none"]

SpecStore == InitStore /\ [][StoreNext]_vars

\* One batch extraction over a folder: any listing, any behaviour of its
\* files.
InitWorkbook ==
    /\ indexFile = Absent
    /\ metaFile = Absent
    /\ bpc = "idle"
    /\ bD = <<>>
    /\ bDim = 0
    /\ bVecs = <<>>
    /\ bMeta = <<>>
    /\ buildOutcome = "none"
    /\ bDrift = FALSE
    /\ run = 0
    /\ lastOkRun = 0
    /\ lastSearch = NoSearch
    /\ wbPath = "none"
    /\ wbFiles \in Listings
    /\ wbBehaviours \in [1..Len(wbFiles) -> FileBehaviours]
    /\ wbOutcome = [kind |-> "none"]
    /\ kText = <<>>
    /\ kpc = "patterns"
    /\ kPat = 1
    /\ kPos = 1
    /\ kLines = <<>>
    /\ kKpis = <<>>
    /\ kFound = {}
    /\ kOut = <<>>
    /\ cBlocks = <<>>
    /\ cpc = "ready"
    /\ cTitle = <<>>
    /\ cDescription = <<>>
    /\ pBlocks = <<>>
    /\ pOcrText = <<>>
    /\ ppc = "ready"
    /\ pOcrRan = FALSE
    /\ pMeta = [kind |-> "none"]

SpecWorkbook == InitWorkbook /\ [][WorkbookNext]_vars

\* One KPI detection over any text.
InitKpi ==
    /\ indexFile = Absent
    /\ metaFile = Absent
    /\ bpc = "idle"
    /\ bD = <<>>
    /\ bDim = 0
    /\ bVecs = <<>>
    /\ bMeta = <<>>
    /\ buildOutcome = "none"
    /\ bDrift = FALSE
    /\ run = 0
    /\ lastOkRun = 0
    /\ lastSearch = NoSearch
    /\ wbPath = "none"
    /\ wbFiles = <<>>
    /\ wbBehaviours = <<>>
    /\ wbOutcome = [kind |-> "none"]
    /\ kText \in KpiTexts
    /\ kpc = "patterns"
    /\ kPat = 1
    /\ kPos = 1
    /\ kLines = <<>>
    /\ kKpis = <<>>
    /\ kFound = {}
    /\ kOut = <<>>
    /\ cBlocks = <<>>
    /\ cpc = "ready"
    /\ cTitle = <<>>
    /\ cDescription = <<>>
    /\ pBlocks = <<>>
    /\ pOcrText = <<>>
    /\ ppc = "ready"
    /\ pOcrRan = FALSE
    /\ pMeta = [kind |-> "none"]

SpecKpi == InitKpi /\ [][KpiNext]_vars

\* One choice of title and description over any list of blocks.
InitChoose ==
    /\ indexFile = Absent
    /\ metaFile = Absent
    /\ bpc = "idle"
    /\ bD = <<>>
    /\ bDim = 0
    /\ bVecs = <<>>
    /\ bMeta = <<>>
    /\ buildOutcome = "none"
    /\ bDrift = FALSE
    /\ run = 0
    /\ lastOkRun = 0
    /\ lastSearch = NoSearch
    /\ wbPath = "none"
    /\ wbFiles = <<>>
    /\ wbBehaviours = <<>>
    /\ wbOutcome = [kind |-> "none"]
    /\ kText = <<>>
    /\ kpc = "patterns"
    /\ kPat = 1
    /\ kPos = 1
    /\ kLines = <<>>
    /\ kKpis = <<>>
    /\ kFound = {}
    /\ kOut = <<>>
    /\ cBlocks \in SeqsUpTo(ChooseBlocks, MaxBlocks)
    /\ cpc = "ready"
    /\ cTitle = <<>>
    /\ cDescription = <<>>
    /\ pBlocks = <<>>
    /\ pOcrText = <<>>
    /\ ppc = "ready"
    /\ pOcrRan = FALSE
    /\ pMeta = [kind |-> "none"]

SpecChoose == InitChoose /\ [][ChooseNext]_vars

\* One PDF processed: any blocks, any OCR text.
InitPdf ==
    /\ indexFile = Absent
    /\ metaFile = Absent
    /\ bpc = "idle"
    /\ bD = <<>>
    /\ bDim = 0
    /\ bVecs = <<>>
    /\ bMeta = <<>>
    /\ buildOutcome = "none"
    /\ bDrift = FALSE
    /\ run = 0
    /\ lastOkRun = 0
    /\ lastSearch = NoSearch
    /\ wbPath = "none"
    /\ wbFiles = <<>>
    /\ wbBehaviours = <<>>
    /\ wbOutcome = [kind |-> "none"]
    /\ kText = <<>>
    /\ kpc = "idle"
    /\ kPat = 1
    /\ kPos = 1
    /\ kLines = <<>>
    /\ kKpis = <<>>
    /\ kFound = {}
    /\ kOut = <<>>
    /\ cBlocks = <<>>
    /\ cpc = "ready"
    /\ cTitle = <<>>
    /\ cDescription = <<>>
    /\ pBlocks \in SeqsUpTo(PdfBlocks, MaxPdfBlocks)
    /\ pOcrText \in OcrTexts
    /\ ppc = "ready"
    /\ pOcrRan = FALSE
    /\ pMeta = [kind |-> "none"]

SpecPdf == InitPdf /\ [][PdfNext]_vars

\* ------------------------------------------------------------- claims

\* The store holds the complete pair written by run r.
PairOf(r) ==
    /\ indexFile.state = "complete" /\ indexFile.run = r
    /\ metaFile.state = "complete" /\ metaFile.run = r

\* C1 (as claimed): every call of generate_embeddings that is not stopped
\* from outside and whose embeddings keep one dimension returns, and leaves
\* an index of len(D) vectors, the i-th the embedding of the summary text of
\* D[i], and a metadata list equal to D.
C1_BuildLeavesAlignedStore ==
    (bpc = "idle" /\ buildOutcome \notin {"none", "interrupted"} /\ ~bDrift) =>
        /\ buildOutcome = "ok"
        /\ PairOf(run)
        /\ Len(indexFile.vecs) = Len(bD)
        /\ \A i \in 1..Len(bD) :
              indexFile.vecs[i] = get_embedding(combined_text(bD[i]), indexFile.d)
        /\ metaFile.entries = bD

\* The positions index.search reported that lie in 0..len(metadata)-1.
ValidRaw(ls) == SelectSeq(ls.raw, LAMBDA e : 0 <= e.idx /\ e.idx < ls.metaLen)

\* C2 (as claimed): a search that returns gives back exactly the pairs
\* (metadata[p], distance) of the reported positions p with
\* 0 <= p < len(metadata); every other reported position yields no result.
C2_OnlyPositionsInRange ==
    (lastSearch.kind = "returned" /\ ~lastSearch.missing) =>
        /\ Len(lastSearch.ret) = Len(ValidRaw(lastSearch))
        /\ \A i \in 1..Len(lastSearch.ret) :
              \E j \in 1..Len(ValidRaw(lastSearch)) :
                  /\ lastSearch.ret[i].dist = ValidRaw(lastSearch)[j].dist
                  /\ lastSearch.ret[i].meta =
                         metaFile.entries[ValidRaw(lastSearch)[j].idx + 1]

\* C3 (as claimed): once a build has succeeded, whenever no build runs
\* (a later one ended or was interrupted at any step) the store holds the
\* complete pair of one run.
C3_NeverMixedPair ==
    (lastOkRun > 0 /\ bpc = "idle") => \E r \in 1..run : PairOf(r)

\* C3 (amended): once a build has succeeded, at every step of every later
\* build the metadata file is never newer than the index file; a file last
\* written by the successful run is complete; and when both files were last
\* written by the same run the index file is complete.  (The index file of
\* a later run beside the metadata file of the successful run is possible.)
C3_MetadataNeverNewerThanIndex ==
    lastOkRun > 0 =>
        /\ lastOkRun <= metaFile.run
        /\ metaFile.run <= indexFile.run
        /\ (metaFile.run = indexFile.run => indexFile.state = "complete")
        /\ (metaFile.run = lastOkRun => metaFile.state = "complete")
        /\ (indexFile.run = lastOkRun => indexFile.state = "complete")

\* A build interrupted between its two writes, after an earlier success: the
\* new index file beside the old metadata file.
C3_Witness ==
    /\ lastOkRun > 0
    /\ bpc = "idle"
    /\ buildOutcome = "interrupted"
    /\ indexFile.state = "complete"
    /\ metaFile.state = "complete"
    /\ indexFile.run > metaFile.run

\* C4: when an embedding of a build differs in dimension from first_emb,
\* the build ends with the dimension error, and neither file of the store
\* has been written by this build.
C4_DimensionMismatchLeavesStore ==
    bDrift =>
        /\ buildOutcome = "DimensionMismatchError"
        /\ bpc = "idle"
        /\ indexFile.run < run
        /\ metaFile.run < run

\* A build over an existing pair failed on a drifting dimension.
C4_Witness ==
    /\ bDrift
    /\ buildOutcome = "DimensionMismatchError"
    /\ lastOkRun > 0
    /\ PairOf(lastOkRun)

\* C5 (as claimed): a search on a store with a missing file ends with an
\* outcome that is not a returned list (which is what a search that finds
\* nothing gives), and the Embedder is not called.
C5_MissingStoreIsAnError ==
    (lastSearch.kind # "none" /\ lastSearch.missing) =>
        /\ lastSearch.kind # "returned"
        /\ lastSearch.embedCalls = 0

\* A search on an existing, readable store that returned the empty list.
ZeroResultSearch ==
    /\ lastSearch.kind = "returned"
    /\ ~lastSearch.missing
    /\ lastSearch.ret = <<>>

\* C9: the returned sequence is non-decreasing in distance and has at most
\* top_k elements.
C9_SortedAtMostTopK ==
    lastSearch.kind = "returned" =>
        /\ Len(lastSearch.ret) <= lastSearch.top_k
        /\ \A i, j \in 1..Len(lastSearch.ret) :
              i < j => lastSearch.ret[i].dist <= lastSearch.ret[j].dist

\* A search that returned two stored vectors at different distances.
C9_Witness ==
    /\ lastSearch.kind = "returned"
    /\ Len(lastSearch.ret) >= 2
    /\ lastSearch.ret[1].dist < lastSearch.ret[2].dist
    /\ lastSearch.ret[2].dist < FltMax

\* What processing file i alone gives on the path that ran.
AloneResult(i) ==
    IF wbPath = "llm"
    THEN process_one(WorkbookName, wbFiles[i], wbBehaviours[i])
    ELSE process_pdf_file(wbFiles[i], wbBehaviours[i])

\* The records of the PDFs whose own extraction succeeds, in listing order.
IsolatedRecords ==
    LET ok == SelectSeq([i \in 1..Len(wbFiles) |-> i],
                        LAMBDA i : is_pdf(wbFiles[i]) /\ AloneResult(i).kind = "returned")
    IN  [k \in 1..Len(ok) |-> AloneResult(ok[k]).value]

\* C6 (as claimed): a batch over a folder returns, whatever fails for single
\* files, the records of the PDFs whose extraction succeeded, in listing
\* order.
C6_FailuresAreIsolated ==
    wbPath \in {"llm", "heuristic"} =>
        /\ wbOutcome.kind = "returned"
        /\ wbOutcome.data = IsolatedRecords

\* The heuristic batch alone does isolate failures.
HeuristicBatchIsolates ==
    wbPath = "heuristic" =>
        /\ wbOutcome.kind = "returned"
        /\ wbOutcome.data = IsolatedRecords

\* C7 (as claimed): every record the model-assisted path lets into the
\* dashboard list is a JSON object with all six Dashboard fields.
C7_OnlyDashboardObjects ==
    (wbPath = "llm" /\ wbOutcome.kind = "returned") =>
        \A i \in 1..Len(wbOutcome.data) :
            /\ wbOutcome.data[i].kind = "object"
            /\ DashboardFields \subseteq wbOutcome.data[i].keys

\* C8 (as claimed): in the list a batch returns every id is non-empty and
\* no two records share an id (stated for the lists whose records all have
\* the six Dashboard fields).
C8_IdsNonEmptyUnique ==
    (/\ wbPath \in {"llm", "heuristic"}
     /\ wbOutcome.kind = "returned"
     /\ \A i \in 1..Len(wbOutcome.data) :
            /\ wbOutcome.data[i].kind = "object"
            /\ DashboardFields \subseteq wbOutcome.data[i].keys) =>
        /\ \A i \in 1..Len(wbOutcome.data) : wbOutcome.data[i].id # <<>>
        /\ \A i, j \in 1..Len(wbOutcome.data) :
              i # j => wbOutcome.data[i].id # wbOutcome.data[j].id

\* The name as a comparison without regard to case sees it: trimmed, and
\* every character replaced by its lower-case form (the capital sigma by
\* the small sigma wherever it stands).
TrimmedName(name) == strip_chars(name, Whitespace)

NameKey(name) ==
    Flatten([i \in 1..Len(TrimmedName(name)) |-> LowerChar(TrimmedName(name)[i])])

\* The candidate a match of the pattern layer proposes, if any.
PatternCandidates(m) ==
    LET name == strip_chars(m.name, {32, 58, 10, 9})
        value == str_strip(m.value)
    IN  IF name = <<>> THEN <<>>
        ELSE <<[name |-> collapse_spaces(name),
                description |-> IF value # <<>> THEN detected(value) ELSE <<>>]>>

\* The candidate a line proposes to the line-heuristic layer, if any.
LineCandidates(line) ==
    LET line_stripped == str_strip(line)
        parts == split_once(line_stripped)
    IN  IF Len(line_stripped) < 5 \/ ~line_triggers(line_stripped) THEN <<>>
        ELSE IF Len(parts) = 2
        THEN IF Len(str_strip(parts[1])) > 2
             THEN <<[name |-> str_strip(parts[1]),
                     description |-> detected(str_strip(parts[2]))]>>
             ELSE <<>>
        ELSE IF Len(collapse_spaces(line_stripped)) > 10
             THEN <<[name |-> collapse_spaces(line_stripped),
                     description |-> <<>>]>>
             ELSE <<>>

\* Every candidate of a text in detection order: the matches of the three
\* pattern families in their order, then the lines.
Candidates(text) ==
    LET ms == all_matches(text)
        ls == splitlines(text)
    IN  Flatten([i \in 1..Len(ms) |-> PatternCandidates(ms[i])])
            \o Flatten([i \in 1..Len(ls) |-> LineCandidates(ls[i])])

\* The loops of the call, taken step by step, compute the function.
DetectionComputesExtract ==
    kpc = "done" => kOut = extract_kpis_from_text(kText)

\* The returned list holds no two names that are equal without regard to
\* case after trimming, every entry is the first candidate of its name in
\* detection order, and every candidate's name is in the list.
FirstCandidateOfEachName ==
    LET cands == Candidates(kText)
    IN  /\ \A i, j \in 1..Len(kOut) :
              i # j => NameKey(kOut[i].name) # NameKey(kOut[j].name)
        /\ \A i \in 1..Len(kOut) :
              \E c \in 1..Len(cands) :
                  /\ cands[c] = kOut[i]
                  /\ \A b \in 1..(c - 1) :
                        NameKey(cands[b].name) # NameKey(cands[c].name)
        /\ \A c \in 1..Len(cands) :
              \E i \in 1..Len(kOut) :
                  NameKey(kOut[i].name) = NameKey(cands[c].name)

\* C10 (as claimed): the list extract_kpis_from_text returns holds no two
\* names that are equal without regard to case after trimming, and every
\* entry is the first candidate of its name in detection order.
C10_FirstCandidateOfEachName ==
    kpc = "done" => FirstCandidateOfEachName

\* What does hold: for a text without a capital sigma (U+03A3), whose
\* lower-case form depends on its place in the word.
DedupeHoldsWithoutSigma ==
    (kpc = "done" /\ \A i \in 1..Len(kText) : kText[i] # 931) =>
        FirstCandidateOfEachName

\* A detection that met two candidates whose names differ only by case
\* and kept the first alone.
CaseDuplicateDropped ==
    /\ kpc = "done"
    /\ LET cands == Candidates(kText)
       IN  \E b, c \in 1..Len(cands) :
              /\ b < c
              /\ cands[b].name # cands[c].name
              /\ NameKey(cands[b].name) = NameKey(cands[c].name)
              /\ \A a \in 1..(b - 1) :
                    NameKey(cands[a].name) # NameKey(cands[b].name)
              /\ \E i \in 1..Len(kOut) : kOut[i] = cands[b]
              /\ \A i \in 1..Len(kOut) : kOut[i] # cands[c]

\* A detection that kept two names which differ only in the case of a
\* sigma.
SigmaNamesBothKept ==
    /\ kpc = "done"
    /\ \E i, j \in 1..Len(kOut) :
          /\ i < j
          /\ NameKey(kOut[i].name) = NameKey(kOut[j].name)

\* The blocks the title is chosen among: those of page 0 if there are any,
\* else all (as positions of the list).
TitlePool(blocks) ==
    IF \E i \in 1..Len(blocks) : blocks[i].page = 0
    THEN {i \in 1..Len(blocks) : blocks[i].page = 0}
    ELSE 1..Len(blocks)

\* C11: for a list of blocks that is not empty the title is the text of the
\* block of largest max_size among those of page 0 if there are any, else
\* among all, the first of them in the order of the list when several have
\* the largest size; for the empty list title and description are empty.
C11_TitleIsFirstLargest ==
    cpc = "done" =>
        IF cBlocks = <<>>
        THEN cTitle = <<>> /\ cDescription = <<>>
        ELSE \E i \in TitlePool(cBlocks) :
                /\ \A j \in TitlePool(cBlocks) :
                      \/ cBlocks[j].max_size < cBlocks[i].max_size
                      \/ cBlocks[j].max_size = cBlocks[i].max_size /\ i <= j
                /\ cTitle = cBlocks[i].text

\* A choice among two blocks of page 0 that share the largest size of the
\* page and differ in text, beside a larger block of a later page: the
\* title is the text of the first of the two.
C11_Witness ==
    /\ cpc = "done"
    /\ \E i, j, k \in 1..Len(cBlocks) :
          /\ i < j
          /\ cBlocks[i].page = 0 /\ cBlocks[j].page = 0 /\ cBlocks[k].page = 1
          /\ cBlocks[i].max_size = cBlocks[j].max_size
          /\ cBlocks[i].max_size < cBlocks[k].max_size
          /\ cBlocks[i].text # cBlocks[j].text
          /\ cTitle = cBlocks[i].text

\* The length of the directly extracted text, as line 175 joins it.
DirectTextLength == Len(str_strip(full_text(pBlocks)))

\* The record has its name or its description from the directly extracted
\* blocks.
FromDirectBlocks ==
    \/ /\ choose_title_and_description(pBlocks).title # <<>>
       /\ pMeta.name = choose_title_and_description(pBlocks).title
    \/ /\ choose_title_and_description(pBlocks).description # <<>>
       /\ pMeta.description = choose_title_and_description(pBlocks).description

\* C12 (as claimed): a PDF whose directly extracted text is shorter than 50
\* characters is processed by the OCR fallback and its record is built from
\* the OCR text, not from the directly extracted blocks; with 50 characters
\* or more OCR is not run.
C12_OcrRecordNotFromBlocks ==
    ppc = "done" =>
        /\ DirectTextLength < 50 => pOcrRan /\ ~FromDirectBlocks
        /\ DirectTextLength >= 50 => ~pOcrRan

\* What does hold: OCR runs exactly below the threshold, and then the KPIs
\* and the excerpt that stands in for a missing description are read from
\* the OCR text.
OcrDecisionFollowsThreshold ==
    ppc = "done" =>
        /\ pOcrRan = (DirectTextLength < 50)
        /\ pOcrRan => kText = pOcrText
        /\ (pOcrRan /\ pBlocks = <<>>) => ~FromDirectBlocks

\* A short PDF with extracted blocks: OCR has run, and the record is named
\* by a block.
OcrRecordNamedByBlock ==
    /\ ppc = "done"
    /\ pOcrRan
    /\ pBlocks # <<>>
    /\ pMeta.name = pBlocks[1].text

====
